---- MODULE Spec2Model ----
(***************************************************************************)
(* Model of the aggregation and scoring engine of Executive_Dashboard      *)
(* (src/utils/_aggregations.py, driven by build_datasets in                *)
(* src/utils/datasets.py).                                                 *)
(*                                                                         *)
(* Conventions                                                             *)
(*  - money is an integer number of cents (the amounts of the model are   *)
(*    a few dollars, so that products of two amounts stay within TLC's    *)
(*    integers); a float column that the code rounds with .round(2)       *)
(*    holds an integer number of hundredths;                              *)
(*  - a nullable numeric cell is <<>> (NaN / NULL) or <<v>>;               *)
(*  - a nullable text cell is the text or None;                            *)
(*  - a date is <<year, month, day>> and NaT is <<>>;                      *)
(*  - a table (DataFrame) is a sequence of records, one per row;           *)
(*  - product codes are integers standing for the code strings in their    *)
(*    lexicographic order.                                                 *)
(* Float rounding error of the IEEE arithmetic is not modelled: ratios     *)
(* are compared exactly, by cross multiplication.                          *)
(***************************************************************************)
EXTENDS Integers, Sequences, FiniteSets, TLC

VARIABLES
    raw,        \* the raw tables read from the database
    config,     \* keyword arguments of the aggregators
    df_base,    \* the enriched fact table (its rows)
    base_columns, \* the column names of the fact table
    datasets,   \* dataset name -> table, the dict build_datasets fills
    raised,     \* the exception that ended the run, None while there is none
    engine,     \* the DataEngine of load_datasets: its connection and what it did
    pc          \* the next step of build_datasets, or of load_datasets

vars == <<raw, config, df_base, base_columns, datasets, raised, engine, pc>>

----------------------------------------------------------------------------
(* Cells *)

NaN == <<>>
NaT == <<>>
None == "None"

F(v) == <<v>>
Val(c) == c[1]

\* No DataEngine: build_datasets is given its tables.
NoEngine == [conn |-> "none", log |-> <<>>]

----------------------------------------------------------------------------
(* Sequences and sets *)

Range(s) == {s[i] : i \in DOMAIN s}

\* The element of a one-element set.  The({e(x) : x \in {v}}) is e(v) with
\* v computed once, which is how an intermediate table is named below.
The(S) == CHOOSE x \in S : TRUE

\* A table given row by row, as a sequence.
Rows(t) == SelectSeq(t, LAMBDA r : TRUE)

Min(a, b) == IF a <= b THEN a ELSE b

RECURSIVE Flatten(_)
Flatten(ss) == IF ss = <<>> THEN <<>> ELSE Head(ss) \o Flatten(Tail(ss))

RECURSIVE SumSeq(_)
SumSeq(s) == IF s = <<>> THEN 0 ELSE Head(s) + SumSeq(Tail(s))

\* Column `col' of `rows', as a sequence.
Column(rows, col) == [i \in DOMAIN rows |-> rows[i][col]]

SumCol(rows, col) == SumSeq(Column(rows, col))

\* The first n rows of a table.
HeadRows(rows, n) == SubSeq(rows, 1, Min(n, Len(rows)))

RECURSIVE SortedPerms(_, _, _)
\* The orders of the row numbers I of `rows' in which column `col' is
\* descending: any row with the largest value first, then the others.
SortedPerms(rows, col, I) ==
    IF I = {} THEN {<<>>}
    ELSE LET first == {i \in I : \A j \in I : rows[i][col] >= rows[j][col]}
         IN  UNION {{<<i>> \o p : p \in SortedPerms(rows, col, I \ {i})} : i \in first}

----------------------------------------------------------------------------
(* Numbers *)

\* round(num/den) to the nearest integer, ties to even (numpy.round), den > 0.
RoundDiv(num, den) ==
    LET a == IF num < 0 THEN -num ELSE num
        q == a \div den
        r == a % den
        m == IF 2 * r < den THEN q
             ELSE IF 2 * r > den THEN q + 1
             ELSE IF q % 2 = 0 THEN q ELSE q + 1
    IN  IF num < 0 THEN -m ELSE m

\* (num/den) * 100 rounded to 2 decimals, in hundredths; NaN for 0/0.
PctCell(num, den) == IF den = 0 THEN NaN ELSE F(RoundDiv(10000 * num, den))

----------------------------------------------------------------------------
(* Dates *)

DaysInMonth(y, m) ==
    IF m = 2 THEN (IF (y % 4 = 0 /\ y % 100 # 0) \/ y % 400 = 0 THEN 29 ELSE 28)
    ELSE IF m \in {4, 6, 9, 11} THEN 30 ELSE 31

RECURSIVE DaysBeforeMonth(_, _)
DaysBeforeMonth(y, m) ==
    IF m = 1 THEN 0 ELSE DaysBeforeMonth(y, m - 1) + DaysInMonth(y, m - 1)

\* The proleptic Gregorian ordinal of a date (Timestamp differences in days).
ToOrdinal(d) ==
    LET y == d[1] - 1
    IN  365 * y + (y \div 4) - (y \div 100) + (y \div 400)
        + DaysBeforeMonth(d[1], d[2]) + d[3]

\* d1 <= d2 on timestamps; any comparison with NaT is False.
DateLE(d1, d2) == d1 # NaT /\ d2 # NaT /\ ToOrdinal(d1) <= ToOrdinal(d2)

\* The latest of a set of dates, NaT skipped; NaT when none is left.
MaxDate(S) ==
    LET D == S \ {NaT}
    IN  IF D = {} THEN NaT ELSE CHOOSE d \in D : \A e \in D : DateLE(e, d)

\* dt.to_period('M'): <<year, month>>, NaT for NaT.
ToPeriodM(d) == IF d = NaT THEN NaT ELSE <<d[1], d[2]>>

----------------------------------------------------------------------------
(* build_enriched_base *)

\* MergeLeft without the rows that have no match.
MergeLeftMatched(left, right, lkey, rkey, nulls) ==
    Flatten([i \in DOMAIN left |->
        LET m == SelectSeq(right, LAMBDA r : r[rkey] = left[i][lkey])
        IN  [j \in DOMAIN m |-> left[i] @@ m[j]]])

\* df.merge(right, how='left'): as MergeInner, and a left row without a
\* match is kept once, with nulls in the right columns.
MergeLeft(left, right, lkey, rkey, nulls) ==
    Flatten([i \in DOMAIN left |->
        LET m == SelectSeq(right, LAMBDA r : r[rkey] = left[i][lkey])
        IN  IF m = <<>> THEN <<left[i] @@ nulls>>
            ELSE [j \in DOMAIN m |-> left[i] @@ m[j]]])

\* The columns of the table build_enriched_base returns.
EnrichedColumns ==
    {"orderNumber", "customerNumber", "orderDate", "requiredDate", "shippedDate",
     "productCode", "quantityOrdered", "priceEach",
     "customerName", "country", "city", "creditLimit", "salesRepEmployeeNumber",
     "productName", "productLine",
     "employeeNumber", "employeeName", "jobTitle", "officeCode", "lineSales"}

\* The inner merge of orders and order lines, then the left merges of the
\* customers (restricted to the merged columns), of the products and of
\* df_employees_clean (employeeName = firstName + ' ' + lastName,
\* employeeNumber a nullable cell); a left row without a match has nulls in
\* the right columns.
build_enriched_base(df_orders, df_orderdetails, df_customers, df_products, df_employees) ==
    LET
        \* df.merge(right, how='inner'): for every left row, in order, one row per
        \* matching right row.
        MergeInner(left, right, lkey, rkey) ==
            Flatten([i \in DOMAIN left |->
                LET m == SelectSeq(right, LAMBDA r : r[rkey] = left[i][lkey])
                IN  [j \in DOMAIN m |-> left[i] @@ m[j]]])
        customers ==
            [i \in DOMAIN df_customers |->
                [customerNumber |-> df_customers[i].customerNumber,
                 customerName |-> df_customers[i].customerName,
                 country |-> df_customers[i].country,
                 city |-> df_customers[i].city,
                 creditLimit |-> df_customers[i].creditLimit,
                 salesRepEmployeeNumber |-> df_customers[i].salesRepEmployeeNumber]]
        df_employees_clean ==
            [i \in DOMAIN df_employees |->
                [employeeNumber |-> F(df_employees[i].employeeNumber),
                 employeeName |->
                     df_employees[i].firstName \o " " \o df_employees[i].lastName,
                 jobTitle |-> df_employees[i].jobTitle,
                 officeCode |-> df_employees[i].officeCode]]
        b1 == MergeInner(df_orders, df_orderdetails, "orderNumber", "orderNumber")
        b2 == MergeLeft(b1, customers, "customerNumber", "customerNumber",
                        [customerName |-> None, country |-> None, city |-> None,
                         creditLimit |-> NaN, salesRepEmployeeNumber |-> NaN])
        b3 == MergeLeft(b2, df_products, "productCode", "productCode",
                        [productName |-> None, productLine |-> None])
        b4 == MergeLeft(b3, df_employees_clean, "salesRepEmployeeNumber", "employeeNumber",
                        [employeeNumber |-> NaN, employeeName |-> None,
                         jobTitle |-> None, officeCode |-> None])
    IN  [i \in DOMAIN b4 |->
            b4[i] @@ [lineSales |-> b4[i].quantityOrdered * b4[i].priceEach]]

----------------------------------------------------------------------------
(* groupby *)

\* The texts of the model in lexicographic order: groupby(sort=True) and
\* sort_values order text keys this way.
TextOrder ==
    <<"Ana Diaz", "Asia-Pacific", "Atelier", "Austria", "Baane", "Belgium",
      "Bo Lee", "Canada", "Car", "Classic Cars", "Client 01", "Client 02",
      "Client 03", "Client 04", "Client 05", "Client 06", "Client 07",
      "Client 08", "Client 09", "Client 10", "Client 11", "Client 12",
      "Client 13", "Cruz", "Denmark", "Dormant", "Europe", "Finland",
      "France", "Germany", "Ireland", "Italy", "Japan", "Latin America",
      "Moto", "Motorcycles", "North America", "Norway", "O1", "O2",
      "Other", "Plane", "Planes", "Portugal", "Sales Rep", "Spain",
      "Sweden", "USA", "United Kingdom", "United States">>

TextRank(s) == CHOOSE i \in DOMAIN TextOrder : TextOrder[i] = s

RECURSIVE TupleLE(_, _)
\* Lexicographic order on integer tuples of equal length.
TupleLE(a, b) ==
    IF a = <<>> THEN TRUE
    ELSE IF Head(a) < Head(b) THEN TRUE
    ELSE IF Head(a) > Head(b) THEN FALSE
    ELSE TupleLE(Tail(a), Tail(b))

RECURSIVE SortTuples(_)
SortTuples(S) ==
    IF S = {} THEN <<>>
    ELSE LET m == CHOOSE x \in S : \A y \in S : TupleLE(x, y)
         IN  <<m>> \o SortTuples(S \ {m})

\* df.groupby(keys) over the rows left after the rows with a null key cell
\* are dropped (dropna=True is the default): the groups (each the rows of
\* one key, in table order) in ascending key order.  keys[i] is the key of
\* rows[i] as an integer tuple.
GroupBy(rows, keys) ==
    LET ks == SortTuples(Range(keys))
        keyed == [i \in DOMAIN rows |-> [row |-> rows[i], key |-> keys[i]]]
    IN  [g \in DOMAIN ks |->
            LET sel == SelectSeq(keyed, LAMBDA z : z.key = ks[g])
            IN  [j \in DOMAIN sel |-> sel[j].row]]

\* Series.nunique() of a column without nulls: the number of distinct values.
NUnique(rows, col) == Cardinality(Range(Column(rows, col)))

----------------------------------------------------------------------------
(* The ranking and ABC classification shared by aggregate_customers,       *)
(* aggregate_products and aggregate_salesreps                              *)

ThresholdA == 80
ThresholdB == 95

\* The tables sort_values(col, ascending=False) may return: the default
\* kind is 'quicksort', which is not stable, so rows with equal values come
\* out in an order the call does not determine.
SortValuesDesc(rows, col) ==
    {[i \in DOMAIN rows |-> rows[p[i]]] : p \in SortedPerms(rows, col, DOMAIN rows)}

\* CumSum with the running sum taken before the row is added.
CumSumExclusive(rows, col, i) == SumCol(HeadRows(rows, i - 1), col)

\* cumsum of a column: the sum of its first i values.
CumSum(rows, col, i) == SumCol(HeadRows(rows, i), col)

\* CumPctLE with a strict comparison.
CumPctLT(rows, i, total, threshold) ==
    total # 0 /\ 100 * CumSum(rows, "total_sales", i) < threshold * total

\* (cumulative percent of row i) <= threshold, on the unrounded values;
\* False when the percent is NaN (total = 0).
CumPctLE(rows, i, total, threshold) ==
    total # 0 /\ 100 * CumSum(rows, "total_sales", i) <= threshold * total

\* (column <= threshold).sum()
CountCumPctLE(rows, total, threshold) ==
    Cardinality({i \in DOMAIN rows : CumPctLE(rows, i, total, threshold)})

\* pct_of_global_sales, then what follows the sort: cumulative percent,
\* sales_rank, abc_class and the final round(2).
RankAndClassify(sorted) ==
    LET
        \* np.where(index < nA, 'A', np.where(index < nB, 'B', 'C')), index 0-based.
        AbcClass(index, nA, nB) ==
            IF index < nA THEN "A" ELSE IF index < nB THEN "B" ELSE "C"
        total == SumCol(sorted, "total_sales")
        nA == CountCumPctLE(sorted, total, ThresholdA)
        nB == CountCumPctLE(sorted, total, ThresholdB)
    IN  [i \in DOMAIN sorted |->
            sorted[i] @@
            [pct_of_global_sales |-> PctCell(sorted[i].total_sales, total),
             cumulative_pct_of_global_sales |->
                 PctCell(CumSum(sorted, "total_sales", i), total),
             sales_rank |-> i,
             abc_class |-> AbcClass(i - 1, nA, nB)]]

----------------------------------------------------------------------------
(* aggregate_customers *)

CustomerKey(r) == <<r.customerNumber, TextRank(r.customerName), TextRank(r.country)>>
HasCustomerKey(r) == r.customerName # None /\ r.country # None

CustomerGroups(base) ==
    LET kept == SelectSeq(base, HasCustomerKey)
    IN  GroupBy(kept, [i \in DOMAIN kept |-> CustomerKey(kept[i])])

\* The tables aggregate_customers may return.
aggregate_customers(base) ==
    LET CustomerAgg ==
            LET gs == CustomerGroups(base)
            IN  [g \in DOMAIN gs |->
                    LET rows == gs[g]
                        total_sales == SumCol(rows, "lineSales")
                        total_units == SumCol(rows, "quantityOrdered")
                        num_orders == NUnique(rows, "orderNumber")
                        num_products == NUnique(rows, "productCode")
                    IN  [customerNumber |-> rows[1].customerNumber,
                         customerName |-> rows[1].customerName,
                         country |-> rows[1].country,
                         total_sales |-> total_sales,
                         total_units |-> total_units,
                         num_orders |-> num_orders,
                         num_products |-> num_products,
                         avg_sales_per_order |-> RoundDiv(total_sales, num_orders),
                         avg_units_per_order |-> RoundDiv(100 * total_units, num_orders),
                         avg_sales_per_product |-> RoundDiv(total_sales, num_products)]]
    IN  {RankAndClassify(s) : s \in SortValuesDesc(CustomerAgg, "total_sales")}

----------------------------------------------------------------------------
(* aggregate_products *)

aggregate_products(base) ==
    LET ProductAgg ==
            LET HasProductKey(r) == r.productName # None /\ r.productLine # None
                ProductKey(r) == <<r.productCode, TextRank(r.productName), TextRank(r.productLine)>>
                kept == SelectSeq(base, HasProductKey)
                gs == GroupBy(kept, [i \in DOMAIN kept |-> ProductKey(kept[i])])
            IN  [g \in DOMAIN gs |->
                    LET rows == gs[g]
                        total_sales == SumCol(rows, "lineSales")
                        total_units == SumCol(rows, "quantityOrdered")
                        num_orders == NUnique(rows, "orderNumber")
                        num_customers == NUnique(rows, "customerNumber")
                    IN  [productCode |-> rows[1].productCode,
                         productName |-> rows[1].productName,
                         productLine |-> rows[1].productLine,
                         total_sales |-> total_sales,
                         total_units |-> total_units,
                         num_orders |-> num_orders,
                         num_customers |-> num_customers,
                         avg_sales_per_order |-> RoundDiv(total_sales, num_orders),
                         avg_units_per_order |-> RoundDiv(100 * total_units, num_orders),
                         avg_sales_per_customer |-> RoundDiv(total_sales, num_customers)]]
    IN  {RankAndClassify(s) : s \in SortValuesDesc(ProductAgg, "total_sales")}

----------------------------------------------------------------------------
(* aggregate_salesreps *)

aggregate_salesreps(base) ==
    LET SalesRepAgg ==
            LET \* Series.nunique() of a text column: nulls are not counted.
                NUniqueText(rows, col) == Cardinality(Range(Column(rows, col)) \ {None})
                HasSalesRepKey(r) ==
                    /\ r.employeeNumber # NaN
                    /\ r.employeeName # None
                    /\ r.jobTitle # None
                    /\ r.officeCode # None
                SalesRepKey(r) ==
                    <<Val(r.employeeNumber), TextRank(r.employeeName), TextRank(r.jobTitle),
                      TextRank(r.officeCode)>>
                kept == SelectSeq(base, HasSalesRepKey)
                gs == GroupBy(kept, [i \in DOMAIN kept |-> SalesRepKey(kept[i])])
            IN  [g \in DOMAIN gs |->
                    LET rows == gs[g]
                        total_sales == SumCol(rows, "lineSales")
                        total_units == SumCol(rows, "quantityOrdered")
                        num_orders == NUnique(rows, "orderNumber")
                        num_customers == NUnique(rows, "customerNumber")
                    IN  [employeeNumber |-> Val(rows[1].employeeNumber),
                         employeeName |-> rows[1].employeeName,
                         jobTitle |-> rows[1].jobTitle,
                         officeCode |-> rows[1].officeCode,
                         total_sales |-> total_sales,
                         total_units |-> total_units,
                         num_orders |-> num_orders,
                         num_customers |-> num_customers,
                         num_customer_countries |-> NUniqueText(rows, "country"),
                         avg_sales_per_order |-> RoundDiv(total_sales, num_orders),
                         avg_units_per_order |-> RoundDiv(100 * total_units, num_orders),
                         avg_sales_per_customer |-> RoundDiv(total_sales, num_customers)]]
    IN  {RankAndClassify(s) : s \in SortValuesDesc(SalesRepAgg, "total_sales")}

----------------------------------------------------------------------------
(* calculate_monthly_kpis *)

\* pd.to_datetime(text, errors='coerce'): the date a 'YYYY-MM-DD' text
\* names, NaT for NULL and for a text that names no calendar day.
ToDatetimeCoerce(d) ==
    IF /\ Len(d) = 3
       /\ d[1] \in 1..9999
       /\ d[2] \in 1..12
       /\ d[3] >= 1
       /\ d[3] <= DaysInMonth(d[1], d[2])
    THEN d ELSE NaT

\* salesMonth is text: 'YYYY-MM' sorts by year and month, and the text
\* 'NaT' of a missing order date sorts after every month.
MonthKey(r) == IF r.salesMonth = NaT THEN <<10000, 0>> ELSE r.salesMonth

\* Diff with the difference taken from the first row.
DiffFromFirst(rows, col, i, lag) ==
    IF i - lag < 1 THEN NaN ELSE F(rows[i][col] - rows[1][col])

\* Series.diff(lag) at row i of a column of amounts.
Diff(rows, col, i, lag) ==
    IF i - lag < 1 THEN NaN ELSE F(rows[i][col] - rows[i - lag][col])

PctChange(rows, col, i, lag) ==
    LET \* Series.pct_change(lag) * 100 at row i, in hundredths: NaN without a
        \* lagged row and for 0/0, Inf for x/0 with x > 0.
        Inf == <<1, 0>>
    IN  IF i - lag < 1 THEN NaN
        ELSE LET cur == rows[i][col]
                 prev == rows[i - lag][col]
             IN  IF prev = 0 THEN (IF cur = 0 THEN NaN ELSE Inf)
                 ELSE F(RoundDiv(10000 * (cur - prev), prev))

YoYLag == 12
RollingWindow == 3

calculate_monthly_kpis(base) ==
    LET
        \* The three date columns parsed, and the columns salesMonth and isOnTime.
        WithMonthAndOnTime ==
            [i \in DOMAIN base |->
                LET orderDate == ToDatetimeCoerce(base[i].orderDate)
                    shippedDate == ToDatetimeCoerce(base[i].shippedDate)
                    requiredDate == ToDatetimeCoerce(base[i].requiredDate)
                IN  [salesMonth |-> ToPeriodM(orderDate),
                     isOnTime |-> IF /\ shippedDate # NaT
                                     /\ requiredDate # NaT
                                     /\ DateLE(shippedDate, requiredDate)
                                  THEN 1 ELSE 0,
                     lineSales |-> base[i].lineSales,
                     orderNumber |-> base[i].orderNumber,
                     customerNumber |-> base[i].customerNumber]]
        \* rolling(window, min_periods=1).mean() at row i.
        RollingMean(rows, col, i, window) ==
            LET first == IF i - window + 1 < 1 THEN 1 ELSE i - window + 1
            IN  RoundDiv(SumCol(SubSeq(rows, first, i), col), i - first + 1)
        HasMonthKey(r) == TRUE
        kept == SelectSeq(WithMonthAndOnTime, HasMonthKey)
        gs == GroupBy(kept, [i \in DOMAIN kept |-> MonthKey(kept[i])])
        monthly == [g \in DOMAIN gs |->
            LET rows == gs[g]
                totalSales == SumCol(rows, "lineSales")
                totalOrders == NUnique(rows, "orderNumber")
                onTimeOrders == SumCol(rows, "isOnTime")
            IN  [salesMonth |-> rows[1].salesMonth,
                 totalSales |-> totalSales,
                 totalOrders |-> totalOrders,
                 totalCustomers |-> NUnique(rows, "customerNumber"),
                 onTimeOrders |-> onTimeOrders,
                 avgOrderValue |-> RoundDiv(totalSales, totalOrders),
                 onTimeRate_pct |-> RoundDiv(10000 * onTimeOrders, totalOrders)]]
    IN  [i \in DOMAIN monthly |->
            monthly[i] @@
            [mom_change |-> Diff(monthly, "totalSales", i, 1),
             mom_pct |-> PctChange(monthly, "totalSales", i, 1),
             yoy_change |-> Diff(monthly, "totalSales", i, YoYLag),
             yoy_pct |-> PctChange(monthly, "totalSales", i, YoYLag),
             rolling3M_avg |-> RollingMean(monthly, "totalSales", i, RollingWindow)]]

----------------------------------------------------------------------------
(* aggregate_by_region *)

region_mapping ==
    [c \in {"USA", "Canada"} |-> "North America"] @@
    [c \in {"France", "UK", "England", "Germany", "Spain", "Norway", "Denmark",
            "Sweden", "Finland", "Italy", "Belgium", "Ireland", "Switzerland",
            "Austria"} |-> "Europe"] @@
    [c \in {"Australia", "Japan", "Singapore", "Hong Kong", "Philippines",
            "New Zealand"} |-> "Asia-Pacific"] @@
    [c \in {"Brazil", "Argentina", "Chile", "Mexico", "Venezuela"} |-> "Latin America"]

\* df['region'] = df['country'].map(region_mapping).fillna('Other'), the
\* groupby(['region', 'country']) and the totals of groupby('region').
aggregate_by_region(base) ==
    LET RegionOf(country) ==
            IF country \in DOMAIN region_mapping THEN region_mapping[country] ELSE "Other"
        df == [i \in DOMAIN base |-> base[i] @@ [region |-> RegionOf(base[i].country)]]
        kept == SelectSeq(df, LAMBDA r : r.country # None)
        gs == GroupBy(kept, [i \in DOMAIN kept |->
                                <<TextRank(kept[i].region), TextRank(kept[i].country)>>])
        RegionTotals(region) ==
            LET rows == SelectSeq(df, LAMBDA r : r.region = region)
            IN  [region_total_sales |-> SumCol(rows, "lineSales"),
                 region_num_orders |-> NUnique(rows, "orderNumber"),
                 region_num_customers |-> NUnique(rows, "customerNumber")]
        country_agg == [g \in DOMAIN gs |->
            [region |-> gs[g][1].region,
             country |-> gs[g][1].country,
             total_sales |-> SumCol(gs[g], "lineSales"),
             num_orders |-> NUnique(gs[g], "orderNumber"),
             num_customers |-> NUnique(gs[g], "customerNumber")]]
        result == [g \in DOMAIN country_agg |->
            country_agg[g] @@ RegionTotals(country_agg[g].region)]
        global_total == SumCol(result, "total_sales")
    IN  [g \in DOMAIN result |->
            LET r == result[g]
            IN  r @@
                [avg_sales_per_customer |-> RoundDiv(r.total_sales, r.num_customers),
                 avg_order_value |-> RoundDiv(r.total_sales, r.num_orders),
                 pct_of_region_sales |-> PctCell(r.total_sales, r.region_total_sales),
                 pct_of_global_sales |-> PctCell(r.total_sales, global_total),
                 rank_in_region |->
                     1 + Cardinality({h \in DOMAIN result :
                            /\ result[h].region = r.region
                            /\ result[h].total_sales > r.total_sales})]]

----------------------------------------------------------------------------
(* identify_high_risk_customers and identify_credit_misalignment *)

HIGH_CREDIT == "HIGH CREDIT / LOW SALES"
LOW_CREDIT == "LOW CREDIT / HIGH SALES"
NO_ORDERS == "NO ORDERS / CREDIT ASSIGNED"
STALE == "STALE ACTIVITY (>= 180 days)"
RECENT == "RECENT ACTIVITY"
MIS_HIGH_CREDIT == "HIGH CREDIT / LOW SALES (credit >= 2x sales)"
MIS_LOW_CREDIT == "LOW CREDIT / HIGH SALES (sales >= 2x credit)"
NORMAL == "NORMAL"

\* A threshold is the fraction <<numerator, denominator>>; 2.0 is <<2, 1>>.
DefaultRatioThreshold == <<2, 1>>
DefaultRecencyThresholdDays == 180

\* RatioOrNaN with 0 in place of NaN for a zero denominator.
RatioOrZero(num, den) == IF den > 0 THEN <<num, den>> ELSE <<0, 1>>

\* np.where(den > 0, num / den, np.nan), unrounded: the fraction <<num, den>>.
RatioOrNaN(num, den) == IF den > 0 THEN <<num, den>> ELSE NaN

\* ratio >= threshold; False for NaN.
RatioGE(ratio, threshold) ==
    ratio # NaN /\ ratio[1] * threshold[2] >= threshold[1] * ratio[2]

\* round(2) of a ratio column, in hundredths.
RoundRatio(ratio) ==
    LET
        \* num/den rounded to 2 decimals, in hundredths (num a count or a ratio of
        \* two amounts of the same unit).
        RatioCell(num, den) == IF den = 0 THEN NaN ELSE F(RoundDiv(100 * num, den))
    IN  IF ratio = NaN THEN NaN ELSE RatioCell(ratio[1], ratio[2])

\* groupby(['customerNumber', 'customerName', 'country', 'creditLimit'])
CreditKey(r) ==
    <<r.customerNumber, TextRank(r.customerName), TextRank(r.country), Val(r.creditLimit)>>
HasCreditKey(r) == r.customerName # None /\ r.country # None /\ r.creditLimit # NaN

\* RatioFlag with the low-credit branch tried first.
RatioFlagLowFirst(credit_to_sales, sales_to_credit, totalSales, creditLimit, threshold) ==
    IF RatioGE(sales_to_credit, threshold) /\ creditLimit > 0 THEN LOW_CREDIT
    ELSE IF RatioGE(credit_to_sales, threshold) /\ totalSales > 0 THEN HIGH_CREDIT
    ELSE None

\* The lambda of ratioFlag: the first branch that fires wins.
RatioFlag(credit_to_sales, sales_to_credit, totalSales, creditLimit, threshold) ==
    IF RatioGE(credit_to_sales, threshold) /\ totalSales > 0 THEN HIGH_CREDIT
    ELSE IF RatioGE(sales_to_credit, threshold) /\ creditLimit > 0 THEN LOW_CREDIT
    ELSE None

\* The lambda of activityFlag.
ActivityFlag(lastOrderDate, daysSinceLastOrder, recency_threshold_days) ==
    IF lastOrderDate = NaT THEN NO_ORDERS
    ELSE IF Val(daysSinceLastOrder) >= recency_threshold_days THEN STALE
    ELSE RECENT

\* AmountAtRisk with the credit limit at risk under either flag.
AmountAtRiskAnyFlag(ratioFlag, creditLimit, totalSales) ==
    IF ratioFlag # None THEN creditLimit ELSE totalSales

\* The lambda of amount_at_risk.
AmountAtRisk(ratioFlag, creditLimit, totalSales) ==
    IF ratioFlag = HIGH_CREDIT THEN creditLimit ELSE totalSales

\* customer_sales with every derived column, before the filter.
HighRiskCustomerSales(base, credit_ratio_threshold, recency_threshold_days) ==
    LET kept == SelectSeq(base, HasCreditKey)
        gs == GroupBy(kept, [i \in DOMAIN kept |-> CreditKey(kept[i])])
        max_order_date == MaxDate(Range(Column(base, "orderDate")))
    IN  [g \in DOMAIN gs |->
            LET rows == gs[g]
                creditLimit == Val(rows[1].creditLimit)
                totalSales == SumCol(rows, "lineSales")
                lastOrderDate == MaxDate(Range(Column(rows, "orderDate")))
                daysSinceLastOrder ==
                    IF lastOrderDate = NaT \/ max_order_date = NaT THEN NaN
                    ELSE F(ToOrdinal(max_order_date) - ToOrdinal(lastOrderDate))
                credit_to_sales == RatioOrNaN(creditLimit, totalSales)
                sales_to_credit == RatioOrNaN(totalSales, creditLimit)
            IN  [customerNumber |-> rows[1].customerNumber,
                 customerName |-> rows[1].customerName,
                 country |-> rows[1].country,
                 creditLimit |-> creditLimit,
                 totalSales |-> totalSales,
                 lastOrderDate |-> lastOrderDate,
                 daysSinceLastOrder |-> daysSinceLastOrder,
                 credit_to_sales_ratio |-> RoundRatio(credit_to_sales),
                 sales_to_credit_ratio |-> RoundRatio(sales_to_credit),
                 activityFlag |->
                     ActivityFlag(lastOrderDate, daysSinceLastOrder, recency_threshold_days),
                 ratioFlag |->
                     RatioFlag(credit_to_sales, sales_to_credit, totalSales,
                               creditLimit, credit_ratio_threshold)]]

identify_high_risk_customers(base, credit_ratio_threshold, recency_threshold_days) ==
    LET customer_sales ==
            HighRiskCustomerSales(base, credit_ratio_threshold, recency_threshold_days)
        high_risk == SelectSeq(customer_sales, LAMBDA r :
            \/ r.ratioFlag # None
            \/ (r.daysSinceLastOrder # NaN
                /\ Val(r.daysSinceLastOrder) >= recency_threshold_days)
            \/ r.lastOrderDate = NaT)
    IN  [i \in DOMAIN high_risk |->
            high_risk[i] @@
            [riskCategory |-> "HIGH RISK CUSTOMER",
             amount_at_risk |->
                 AmountAtRisk(high_risk[i].ratioFlag, high_risk[i].creditLimit,
                              high_risk[i].totalSales)]]

MisalignmentCustomerSales(base, ratio_threshold) ==
    LET
        \* The lambda of misalignmentCategory.
        MisalignmentCategory(credit_to_sales, sales_to_credit, totalSales, creditLimit, threshold) ==
            IF RatioGE(credit_to_sales, threshold) /\ totalSales > 0 THEN MIS_HIGH_CREDIT
            ELSE IF RatioGE(sales_to_credit, threshold) /\ creditLimit > 0 THEN MIS_LOW_CREDIT
            ELSE NORMAL
        kept == SelectSeq(base, HasCreditKey)
        gs == GroupBy(kept, [i \in DOMAIN kept |-> CreditKey(kept[i])])
    IN  [g \in DOMAIN gs |->
            LET rows == gs[g]
                creditLimit == Val(rows[1].creditLimit)
                totalSales == SumCol(rows, "lineSales")
                credit_to_sales == RatioOrNaN(creditLimit, totalSales)
                sales_to_credit == RatioOrNaN(totalSales, creditLimit)
            IN  [customerNumber |-> rows[1].customerNumber,
                 customerName |-> rows[1].customerName,
                 country |-> rows[1].country,
                 creditLimit |-> creditLimit,
                 totalSales |-> totalSales,
                 credit_to_sales_ratio |-> RoundRatio(credit_to_sales),
                 sales_to_credit_ratio |-> RoundRatio(sales_to_credit),
                 misalignmentCategory |->
                     MisalignmentCategory(credit_to_sales, sales_to_credit, totalSales,
                                          creditLimit, ratio_threshold)]]

\* identify_credit_misalignment without the filter on the category.
credit_categories_unfiltered(base, ratio_threshold) ==
    MisalignmentCustomerSales(base, ratio_threshold)

\* customer_sales[customer_sales['misalignmentCategory'] != 'NORMAL']
identify_credit_misalignment(base, ratio_threshold) ==
    SelectSeq(MisalignmentCustomerSales(base, ratio_threshold),
              LAMBDA r : r.misalignmentCategory # NORMAL)

----------------------------------------------------------------------------
(* check_geographic_credit_anomalies *)

GEO_HIGH == "HIGH CREDIT VS SALES (Top 10%)"
GEO_LOW == "LOW CREDIT VS SALES (Bottom 10%)"

TopPercentile == 90
BottomPercentile == 10

\* IsGeoAnomaly with both deciles open.
IsGeoAnomalyStrict(r) ==
    /\ r.ratio_pct # NaN
    /\ \/ r.ratio_pct[1] > TopPercentile * r.ratio_pct[2]
       \/ r.ratio_pct[1] < BottomPercentile * r.ratio_pct[2]

\* (ratio_pct >= 90) | (ratio_pct <= 10); False for NaN.
IsGeoAnomaly(r) ==
    /\ r.ratio_pct # NaN
    /\ \/ r.ratio_pct[1] >= TopPercentile * r.ratio_pct[2]
       \/ r.ratio_pct[1] <= BottomPercentile * r.ratio_pct[2]

check_geographic_credit_anomalies(base) ==
    LET
        \* groupby('country') of the customer rows.
        CountryProfile ==
            LET
                \* groupby(['customerNumber', 'country', 'creditLimit']): one row per
                \* customer, country and credit limit, with its sales; rows with a null
                \* key cell belong to no group.
                GeoCustomerSales ==
                    LET kept == SelectSeq(base, LAMBDA r : r.country # None /\ r.creditLimit # NaN)
                        gs == GroupBy(kept, [i \in DOMAIN kept |->
                                                <<kept[i].customerNumber, TextRank(kept[i].country),
                                                  Val(kept[i].creditLimit)>>])
                    IN  [g \in DOMAIN gs |->
                            [customerNumber |-> gs[g][1].customerNumber,
                             country |-> gs[g][1].country,
                             creditLimit |-> Val(gs[g][1].creditLimit),
                             totalSales |-> SumCol(gs[g], "lineSales")]]
                \* The row of one country from its customer rows, with the credit/sales
                \* ratio of the country as a fraction, NaN without sales.
                CountryRow(rows) ==
                    [country |-> rows[1].country,
                     num_customers |-> Len(rows),
                     total_credit_limit |-> SumCol(rows, "creditLimit"),
                     avg_credit_limit |-> RoundDiv(SumCol(rows, "creditLimit"), Len(rows)),
                     total_sales |-> SumCol(rows, "totalSales"),
                     avg_sales_per_customer |-> RoundDiv(SumCol(rows, "totalSales"), Len(rows)),
                     ratio |-> RatioOrNaN(SumCol(rows, "creditLimit"), SumCol(rows, "totalSales"))]
            IN  The({Rows([g \in DOMAIN gs |-> CountryRow(gs[g])]) :
                        gs \in {GroupBy(customer_sales,
                                        [i \in DOMAIN customer_sales |->
                                            <<TextRank(customer_sales[i].country)>>]) :
                                   customer_sales \in {Rows(GeoCustomerSales)}}})
        \* Series.rank(pct=True) * 100 of row i of the ratio column, as a fraction:
        \* the average rank of the row among the rows with a ratio, over their
        \* number; NaN for a row without a ratio.
        RankPct(profile, i) ==
            IF profile[i].ratio = NaN THEN NaN
            ELSE LET valid == {j \in DOMAIN profile : profile[j].ratio # NaN}
                     less == Cardinality({j \in valid :
                                 profile[j].ratio[1] * profile[i].ratio[2]
                                     < profile[i].ratio[1] * profile[j].ratio[2]})
                     equal == Cardinality({j \in valid :
                                  profile[j].ratio[1] * profile[i].ratio[2]
                                      = profile[i].ratio[1] * profile[j].ratio[2]})
                 IN  <<100 * (2 * less + equal + 1), 2 * Cardinality(valid)>>
        \* The row of an anomalous country, categorised and rounded.
        GeoAnomalyRow(r) ==
            [country |-> r.country,
             num_customers |-> r.num_customers,
             total_credit_limit |-> r.total_credit_limit,
             avg_credit_limit |-> r.avg_credit_limit,
             total_sales |-> r.total_sales,
             avg_sales_per_customer |-> r.avg_sales_per_customer,
             credit_to_sales_ratio |-> RoundRatio(r.ratio),
             ratio_pct |-> RoundRatio(r.ratio_pct),
             anomalyCategory |->
                 IF r.ratio_pct[1] >= TopPercentile * r.ratio_pct[2] THEN GEO_HIGH ELSE GEO_LOW]
    IN  The({Rows([i \in DOMAIN anomalies |-> GeoAnomalyRow(anomalies[i])]) :
                anomalies \in
                    {SelectSeq([i \in DOMAIN profile |->
                                   profile[i] @@ [ratio_pct |-> RankPct(profile, i)]],
                               IsGeoAnomaly) :
                        profile \in {CountryProfile}}})

----------------------------------------------------------------------------
(* Results of a call: a table, or the exception the call raises *)

Ok(table) == [exception |-> None, table |-> table]
Raises(exception) == [exception |-> exception, table |-> <<>>]

\* pd.to_datetime(column) without errors='coerce' raises on a text that
\* names no calendar day; NULL becomes NaT.
ColumnParses(base, col) ==
    \A i \in DOMAIN base : base[i][col] = NaT \/ ToDatetimeCoerce(base[i][col]) # NaT

----------------------------------------------------------------------------
(* binary64 arithmetic, where a comparison with a decimal threshold rests  *)
(* on it                                                                   *)

\* Naturals beyond 2^31 are sequences of digits in base 2^14, the least
\* significant first.
Digit(a, i) == IF i <= Len(a) THEN a[i] ELSE 0

BigLess(a, b) ==
    \E i \in 1..(Len(a) + Len(b)) :
        /\ Digit(a, i) < Digit(b, i)
        /\ \A j \in (i + 1)..(Len(a) + Len(b)) : Digit(a, j) = Digit(b, j)

RECURSIVE BigScale(_, _, _)
\* a * k + carry, for k and carry below 2^15.
BigScale(a, k, carry) ==
    IF a = <<>>
    THEN IF carry = 0 THEN <<>> ELSE <<carry % 16384>> \o BigScale(a, k, carry \div 16384)
    ELSE <<(a[1] * k + carry) % 16384>>
         \o BigScale(Tail(a), k, (a[1] * k + carry) \div 16384)

\* a * 2^s
BigShift(a, s) == [i \in 1..(s \div 14) |-> 0] \o BigScale(a, 2 ^ (s % 14), 0)

RECURSIVE BigAdd(_, _, _)
BigAdd(a, b, carry) ==
    IF a = <<>> /\ b = <<>> THEN (IF carry = 0 THEN <<>> ELSE <<carry>>)
    ELSE <<(Digit(a, 1) + Digit(b, 1) + carry) % 16384>>
         \o BigAdd(IF a = <<>> THEN a ELSE Tail(a), IF b = <<>> THEN b ELSE Tail(b),
                   (Digit(a, 1) + Digit(b, 1) + carry) \div 16384)

RECURSIVE BigSub(_, _, _)
\* a - b - borrow, for a >= b + borrow.
BigSub(a, b, borrow) ==
    IF a = <<>> THEN <<>>
    ELSE <<(a[1] - Digit(b, 1) - borrow + 16384) % 16384>>
         \o BigSub(Tail(a), IF b = <<>> THEN b ELSE Tail(b),
                   IF a[1] - Digit(b, 1) - borrow < 0 THEN 1 ELSE 0)

RECURSIVE BigMul(_, _)
BigMul(a, b) ==
    IF b = <<>> THEN <<>>
    ELSE BigAdd(BigScale(a, b[1], 0), <<0>> \o BigMul(a, Tail(b)), 0)

RECURSIVE BigDivSmall(_, _)
\* The quotient and the remainder of a by d, for d below 2^16.
BigDivSmall(a, d) ==
    IF a = <<>> THEN [q |-> <<>>, r |-> 0]
    ELSE The({[q |-> <<(hi.r * 16384 + a[1]) \div d>> \o hi.q,
               r |-> (hi.r * 16384 + a[1]) % d] : hi \in {BigDivSmall(Tail(a), d)}})

RECURSIVE FloorLog2(_, _)
\* The integer part of log2(n / d), for n, d > 0.
FloorLog2(n, d) ==
    IF n >= 2 * d THEN FloorLog2(n, 2 * d) + 1
    ELSE IF n < d THEN FloorLog2(2 * n, d) - 1
    ELSE 0

\* The binary64 number nearest to n / d (ties to even), as m * 2^e with the
\* 53-bit m: the float a decimal amount is read as.
DoubleOf(n, d) ==
    IF n = 0 THEN [m |-> <<>>, e |-> 0]
    ELSE The({[m |-> IF 2 * qr.r > d \/ (2 * qr.r = d /\ qr.q[1] % 2 = 1)
                     THEN BigScale(qr.q, 1, 1) ELSE qr.q,
               e |-> FloorLog2(n, d) - 52] :
                 qr \in {BigDivSmall(BigShift(BigScale(<<>>, 1, n), 52 - FloorLog2(n, d)), d)}})

\* x < y on binary64 numbers.
DoubleLess(x, y) ==
    IF x.e <= y.e THEN BigLess(x.m, BigShift(y.m, y.e - x.e))
    ELSE BigLess(BigShift(x.m, x.e - y.e), y.m)

\* (x - y) / p >= t in binary64 arithmetic, for x >= y >= 0, p > 0 and
\* 0 < t < 1/2.  For x > 2y the quotient is over 1/2.  Otherwise x - y is
\* exact, and its quotient by p rounds to t or more when it lies over the
\* midpoint of t and the binary64 number before t (on it, if m of t is
\* even).
DoubleGrowthAtLeast(x, y, p, t) ==
    IF DoubleLess([m |-> y.m, e |-> y.e + 1], x) THEN TRUE
    ELSE The({
        IF t.m[1] % 2 = 1 THEN BigLess(sides[2], sides[1]) ELSE ~BigLess(sides[1], sides[2]) :
            sides \in {<<BigShift(BigSub(BigShift(x.m, x.e - e), BigShift(y.m, y.e - e), 0),
                                  e - p.e - t.e + 1),
                         BigMul(BigSub(BigScale(t.m, 2, 0), <<1>>, 0), p.m)>> :
                          e \in {IF x.e <= y.e THEN x.e ELSE y.e}}})

----------------------------------------------------------------------------
(* calculate_product_demand_trend *)

GROWING == "GROWING"
DECLINING == "DECLINING"
STABLE == "STABLE"
INSUFFICIENT_DATA == "INSUFFICIENT_DATA"

\* 0.15 as a fraction.
GrowthThreshold == <<15, 100>>

\* The number of a month, so that Period differences (.n) are differences.
MonthIndex(m) == 12 * m[1] + m[2]

\* x[x['months_ago'].between(lo, hi)]['totalSales'].mean(), as the fraction
\* <<sum, count>>; NaN when no month of the product is in the window.
WindowMean(rows, window) ==
    LET w == SelectSeq(rows, LAMBDA r : r.months_ago >= window[1] /\ r.months_ago <= window[2])
    IN  IF w = <<>> THEN NaN ELSE <<SumCol(w, "totalSales"), Len(w)>>

\* (recent - prev) / prev where prev is defined and > 0, as a fraction with
\* a positive denominator; NaN otherwise and when recent is NaN.
GrowthRate(recent_avg, prev_avg) ==
    IF prev_avg = NaN THEN NaN
    ELSE IF prev_avg[1] <= 0 THEN NaN
    ELSE IF recent_avg = NaN THEN NaN
    ELSE <<recent_avg[1] * prev_avg[2] - prev_avg[1] * recent_avg[2],
           prev_avg[1] * recent_avg[2]>>

\* Without a product-month group, groupby(['productCode',
\* 'productName']).apply never calls the lambda and its result has no
\* recent_avg and prev_avg columns: the read of trend_agg['prev_avg']
\* raises KeyError.
calculate_product_demand_trend(base) ==
    LET
        \* The sales of every product and month, with months_ago counted from
        \* max_month, the latest month of the groups.
        MonthlyProduct ==
            LET
                \* groupby(['productCode', 'productName', 'salesMonth']) of the fact rows
                \* with salesMonth; rows with a null key cell belong to no group.
                ProductMonthGroups ==
                    LET df == [i \in DOMAIN base |->
                                  [productCode |-> base[i].productCode,
                                   productName |-> base[i].productName,
                                   salesMonth |-> ToPeriodM(base[i].orderDate),
                                   lineSales |-> base[i].lineSales]]
                    IN  The({Rows(GroupBy(kept, [i \in DOMAIN kept |->
                                                    <<kept[i].productCode, TextRank(kept[i].productName),
                                                      kept[i].salesMonth[1], kept[i].salesMonth[2]>>])) :
                                kept \in {SelectSeq(df, LAMBDA r :
                                                        r.productName # None /\ r.salesMonth # NaT)}})
                \* The sales of one product and month, with months_ago.
                ProductMonthRow(rows, max_month) ==
                    [productCode |-> rows[1].productCode,
                     productName |-> rows[1].productName,
                     salesMonth |-> rows[1].salesMonth,
                     totalSales |-> SumCol(rows, "lineSales"),
                     months_ago |-> max_month - MonthIndex(rows[1].salesMonth)]
            IN  The({IF gs = <<>> THEN <<>>
                     ELSE The({Rows([g \in DOMAIN gs |-> ProductMonthRow(gs[g], max_month)]) :
                                  max_month \in
                                      {CHOOSE m \in {MonthIndex(gs[g][1].salesMonth) : g \in DOMAIN gs} :
                                          \A g \in DOMAIN gs : MonthIndex(gs[g][1].salesMonth) <= m}}) :
                        gs \in {ProductMonthGroups}})
        \* The lambda of demand_trend_flag on growth_rate = (recent_avg - prev_avg)
        \* / prev_avg, computed and compared with 0.15 and -0.15 in binary64.  The
        \* two means are the binary64 numbers nearest to the exact means, which they
        \* are when a window holds one order line of quantity 1.
        DemandTrendFlag(recent_avg, prev_avg) ==
            IF GrowthRate(recent_avg, prev_avg) = NaN THEN INSUFFICIENT_DATA
            ELSE The({
                IF ~DoubleLess(d[1], d[2]) /\ DoubleGrowthAtLeast(d[1], d[2], d[2], d[3]) THEN GROWING
                ELSE IF DoubleLess(d[1], d[2]) /\ DoubleGrowthAtLeast(d[2], d[1], d[2], d[3])
                THEN DECLINING
                ELSE STABLE :
                    d \in {<<DoubleOf(recent_avg[1], 100 * recent_avg[2]),
                             DoubleOf(prev_avg[1], 100 * prev_avg[2]),
                             DoubleOf(GrowthThreshold[1], GrowthThreshold[2])>>}})
        RecentWindow == <<0, 2>>
        PreviousWindow == <<3, 5>>
        \* The row of one product: the lambda of groupby(...).apply, growth_rate,
        \* growth_rate_pct, demand_trend_flag and round(2): means in cents, the
        \* rate and its percent in hundredths.
        TrendRow(rows) ==
            LET recent_avg == WindowMean(rows, RecentWindow)
                prev_avg == WindowMean(rows, PreviousWindow)
                growth_rate == GrowthRate(recent_avg, prev_avg)
            IN  [productCode |-> rows[1].productCode,
                 productName |-> rows[1].productName,
                 recent_avg |-> IF recent_avg = NaN THEN NaN
                                ELSE F(RoundDiv(recent_avg[1], recent_avg[2])),
                 prev_avg |-> IF prev_avg = NaN THEN NaN
                              ELSE F(RoundDiv(prev_avg[1], prev_avg[2])),
                 growth_rate |-> RoundRatio(growth_rate),
                 growth_rate_pct |-> IF growth_rate = NaN THEN NaN
                                     ELSE F(RoundDiv(10000 * growth_rate[1], growth_rate[2])),
                 demand_trend_flag |-> DemandTrendFlag(recent_avg, prev_avg)]
    IN  IF ~ColumnParses(base, "orderDate") THEN Raises("ValueError")
        ELSE The({IF gs = <<>> THEN Raises("KeyError")
                  ELSE Ok(Rows([g \in DOMAIN gs |-> TrendRow(gs[g])])) :
                     gs \in {Rows(GroupBy(monthly_product,
                                          [i \in DOMAIN monthly_product |->
                                              <<monthly_product[i].productCode,
                                                TextRank(monthly_product[i].productName)>>])) :
                                monthly_product \in {MonthlyProduct}}})

----------------------------------------------------------------------------
(* calculate_customer_rfm *)

MaxBins == 5
NeutralScore == 3

RECURSIVE SortInts(_)
\* A finite set of integers as an ascending sequence.
SortInts(S) ==
    IF S = {} THEN <<>>
    ELSE LET m == CHOOSE x \in S : \A y \in S : x <= y
         IN  <<m>> \o SortInts(S \ {m})

RECURSIVE SortValues(_)
\* The values of a sequence of integers in ascending order, repeats kept.
SortValues(vals) ==
    IF vals = <<>> THEN <<>>
    ELSE LET i == CHOOSE j \in DOMAIN vals : \A k \in DOMAIN vals : vals[j] <= vals[k]
         IN  <<vals[i]>> \o
             SortValues(SubSeq(vals, 1, i - 1) \o SubSeq(vals, i + 1, Len(vals)))

\* Invert without the inversion.
InvertNever(score, n_bins, reverse) == score

\* if reverse: scores = n_bins + 1 - scores
Invert(score, n_bins, reverse) == IF reverse THEN n_bins + 1 - score ELSE score

\* _quantile_score with the lowest score for every row.
QuantileScoreLowest(series, reverse) == [i \in DOMAIN series |-> F(1)]

\* _quantile_score: the score column of a column of nullable numbers.  A
\* column with at most one distinct value gets the neutral score on every
\* row; otherwise the scores are the bins of pd.qcut numbered from 1 (NaN
\* for NaN), inverted within 1..n_bins when reverse is set, n_bins being
\* the highest bin assigned.
QuantileScore(series, reverse) ==
    LET
        \* The bin edges of pd.qcut(s, q, duplicates='drop'), each times q, from
        \* the ascending values x: q times Series.quantile(k/q) for k in 0..q, with
        \* linear interpolation between the two nearest values.
        QcutEdges(x, q) ==
            LET QuantileTimes(k) ==
                    LET h == (Len(x) - 1) * k
                        lo == h \div q + 1
                        rem == h % q
                    IN  IF rem = 0 THEN q * x[lo] ELSE q * x[lo] + rem * (x[lo + 1] - x[lo])
            IN  SortInts({QuantileTimes(k) : k \in 0..q})
        \* The 1-based bin of value v: the bins are right-closed and the first
        \* holds the lowest edge.
        QcutBin(v, edges, q) ==
            LET below == Cardinality({j \in DOMAIN edges : edges[j] < q * v})
            IN  IF below = 0 THEN 1 ELSE below
        vals == SelectSeq(series, LAMBDA c : c # NaN)
        distinct == {Val(vals[i]) : i \in DOMAIN vals}
        q == Min(MaxBins, Cardinality(distinct))
    IN  IF Cardinality(distinct) <= 1
        THEN [i \in DOMAIN series |-> F(NeutralScore)]
        ELSE The({
            The({[i \in DOMAIN scores |->
                     IF scores[i] = NaN THEN NaN
                     ELSE F(Invert(Val(scores[i]), n_bins, reverse))] :
                    n_bins \in {CHOOSE m \in 1..q :
                                   /\ F(m) \in Range(scores)
                                   /\ \A n \in (m + 1)..q : F(n) \notin Range(scores)}}) :
                scores \in
                    {Rows([i \in DOMAIN series |->
                              IF series[i] = NaN THEN NaN
                              ELSE F(QcutBin(Val(series[i]), edges, q))]) :
                        edges \in {QcutEdges(SortValues([i \in DOMAIN vals |->
                                                           Val(vals[i])]), q)}}})

calculate_customer_rfm(base) ==
    LET
        \* The customer rows with their three scores, rfm_score = r_score +
        \* f_score + m_score (NaN when one of them is) and rfm_segment.
        RfmScored(customer_rfm, r_score, f_score, m_score) ==
            LET
                \* The lambda of rfm_segment; every comparison with NaN is False.
                RfmSegment(rfm_score) ==
                    IF rfm_score # NaN /\ Val(rfm_score) >= 12 THEN "Champions"
                    ELSE IF rfm_score # NaN /\ Val(rfm_score) >= 9 THEN "Loyal"
                    ELSE IF rfm_score # NaN /\ Val(rfm_score) >= 6 THEN "Potential"
                    ELSE "At Risk"
            IN  Rows([i \in DOMAIN customer_rfm |->
                    The({customer_rfm[i] @@
                         [r_score |-> r_score[i], f_score |-> f_score[i], m_score |-> m_score[i],
                          rfm_score |-> rfm_score, rfm_segment |-> RfmSegment(rfm_score)] :
                            rfm_score \in
                                {IF r_score[i] = NaN \/ f_score[i] = NaN \/ m_score[i] = NaN THEN NaN
                                 ELSE F(Val(r_score[i]) + Val(f_score[i]) + Val(m_score[i]))}})])
        \* groupby(['customerNumber', 'customerName', 'country'])
        CustomerRfm ==
            LET
                \* The row of one customer: order count, sales, last order date and the
                \* days from it to the latest order date of the fact table.
                CustomerRfmRow(rows, max_order_date) ==
                    LET last_order_date == MaxDate(Range(Column(rows, "orderDate")))
                    IN  [customerNumber |-> rows[1].customerNumber,
                         customerName |-> rows[1].customerName,
                         country |-> rows[1].country,
                         freq_orders |-> NUnique(rows, "orderNumber"),
                         monetary |-> SumCol(rows, "lineSales"),
                         last_order_date |-> last_order_date,
                         days_since_last_order |->
                             IF last_order_date = NaT THEN NaN
                             ELSE F(ToOrdinal(max_order_date) - ToOrdinal(last_order_date))]
            IN  The({Rows([g \in DOMAIN gs |-> CustomerRfmRow(gs[g], max_order_date)]) :
                        gs \in {Rows(CustomerGroups(base))},
                        max_order_date \in {MaxDate(Range(Column(base, "orderDate")))}})
    IN  IF ~ColumnParses(base, "orderDate") THEN Raises("ValueError")
        ELSE Ok(The({
            The({RfmScored(customer_rfm, r_score, f_score, m_score) :
                    r_score \in {Rows(QuantileScore(
                                     Column(customer_rfm, "days_since_last_order"), TRUE))},
                    f_score \in {Rows(QuantileScore(
                                     [i \in DOMAIN customer_rfm |-> F(customer_rfm[i].freq_orders)],
                                     FALSE))},
                    m_score \in {Rows(QuantileScore(
                                     [i \in DOMAIN customer_rfm |-> F(customer_rfm[i].monetary)],
                                     FALSE))}}) :
                customer_rfm \in {CustomerRfm}}))

----------------------------------------------------------------------------
(* calculate_customer_next_order_prediction *)

\* GapDays with the gap taken from the first order of the customer.
GapDaysFromFirst(ordinals) ==
    [i \in 1..Len(ordinals) - 1 |-> ordinals[i + 1] - ordinals[1]]

\* gap_days of the orders of one customer sorted by date: the days from
\* each order to the next.  `ordinals' are the dates in ascending order;
\* the gap of the first order and every gap to an order without a date
\* (sorted last) are NaN and left out of the mean.
GapDays(ordinals) ==
    [i \in 1..Len(ordinals) - 1 |-> ordinals[i + 1] - ordinals[i]]

\* gap_stats: groupby(['customerNumber', 'customerName', 'country']) of
\* customer_orders.
calculate_customer_next_order_prediction(base) ==
    LET
        \* The row of one customer from the customer's order rows; avg_gap_days
        \* is rounded to one decimal (in tenths) after the prediction.
        GapStatsRow(rows) ==
            LET
                \* row['last_order_date'] + pd.Timedelta(days=row['avg_gap_days']) if
                \* pd.notna(row['avg_gap_days']) else None.  A timestamp is the fraction
                \* <<numerator, denominator>> of its day ordinal.
                ExpectedNextOrderDate(last_order_date, avg_gap_days) ==
                    IF avg_gap_days = NaN THEN NaT
                    ELSE <<ToOrdinal(last_order_date) * avg_gap_days[2] + avg_gap_days[1], avg_gap_days[2]>>
                \* The dates of the orders of one customer as day ordinals, ascending;
                \* orders without a date are left out.
                OrderOrdinals ==
                    LET dated == SelectSeq(rows, LAMBDA r : r.orderDate # NaT)
                    IN  SortValues([i \in DOMAIN dated |-> ToOrdinal(dated[i].orderDate)])
                \* The mean of a sequence of numbers as a fraction, NaN when it is empty.
                Mean(vals) == IF vals = <<>> THEN NaN ELSE <<SumSeq(vals), Len(vals)>>
            IN  The({[customerNumber |-> rows[1].customerNumber,
                      customerName |-> rows[1].customerName,
                      country |-> rows[1].country,
                      last_order_date |-> last_order_date,
                      avg_gap_days |-> IF avg_gap_days = NaN THEN NaN
                                       ELSE F(RoundDiv(10 * avg_gap_days[1], avg_gap_days[2])),
                      expected_next_order_date |->
                          ExpectedNextOrderDate(last_order_date, avg_gap_days)] :
                        last_order_date \in {MaxDate(Range(Column(rows, "orderDate")))},
                        avg_gap_days \in {Mean(GapDays(OrderOrdinals))}})
        \* customer_orders: one row per customer and order, from
        \* groupby(['customerNumber', 'customerName', 'country', 'orderNumber']),
        \* with the date of the order (agg 'first': the first date of the rows
        \* that is not NaT, NaT without one).
        CustomerOrders ==
            The({Rows([g \in DOMAIN gs |->
                         LET valid == SelectSeq(gs[g], LAMBDA r : r.orderDate # NaT)
                         IN  [customerNumber |-> gs[g][1].customerNumber,
                              customerName |-> gs[g][1].customerName,
                              country |-> gs[g][1].country,
                              orderNumber |-> gs[g][1].orderNumber,
                              orderDate |-> IF valid = <<>> THEN NaT ELSE valid[1].orderDate]]) :
                    gs \in {Rows(GroupBy(kept, [i \in DOMAIN kept |->
                                                   <<kept[i].customerNumber,
                                                     TextRank(kept[i].customerName),
                                                     TextRank(kept[i].country),
                                                     kept[i].orderNumber>>])) :
                               kept \in {SelectSeq(base, HasCustomerKey)}}})
    IN  IF ~ColumnParses(base, "orderDate") THEN Raises("ValueError")
        ELSE Ok(The({
            The({Rows([g \in DOMAIN gs |-> GapStatsRow(gs[g])]) :
                    gs \in {Rows(GroupBy(customer_orders,
                                         [i \in DOMAIN customer_orders |->
                                             CustomerKey(customer_orders[i])]))}}) :
                customer_orders \in {CustomerOrders}}))

----------------------------------------------------------------------------
(* identify_product_cross_sell_pairs *)

DefaultMinCooccurrence == 3
PipelineMinCooccurrence == 5

\* PairKept with pairs kept in both orders and with themselves.
PairKeptAlways(productCode_1, productCode_2) == TRUE

\* pairs[pairs['productCode_1'] < pairs['productCode_2']]
PairKept(productCode_1, productCode_2) == productCode_1 < productCode_2

\* df_base.groupby('productCode')['orderNumber'].nunique() at one product.
ProductOrderCount(base, productCode) ==
    NUnique(SelectSeq(base, LAMBDA r : r.productCode = productCode), "orderNumber")

\* round(4) of num/den, in ten-thousandths.
Round4(num, den) == RoundDiv(10000 * num, den)

\* The tables the call may return: the pairs with cooccurrence_count >=
\* min_cooccurrence with their measures.  The final sort_values('support',
\* ascending=False) leaves the order of pairs with equal support, which
\* are the pairs with equal counts, open.
identify_product_cross_sell_pairs(base, min_cooccurrence) ==
    LET
        \* The self-join on orderNumber of order_products, the distinct rows of
        \* df_base[['orderNumber', 'productCode', 'productName']], filtered: one
        \* row per order and pair of its products.
        Pairs ==
            LET order_products ==
                    {[orderNumber |-> base[i].orderNumber, productCode |-> base[i].productCode,
                      productName |-> base[i].productName] : i \in DOMAIN base}
            IN  {[orderNumber |-> a.orderNumber,
                  productCode_1 |-> a.productCode, productName_1 |-> a.productName,
                  productCode_2 |-> b.productCode, productName_2 |-> b.productName] :
                    <<a, b>> \in {ab \in order_products \X order_products :
                                     /\ ab[1].orderNumber = ab[2].orderNumber
                                     /\ PairKept(ab[1].productCode, ab[2].productCode)}}
        \* groupby([...]).size(): the pair rows counted per pair, in key order;
        \* pairs with a null product name are left out (dropna=True).
        PairCounts ==
            LET pairs == {r \in Pairs : r.productName_1 # None /\ r.productName_2 # None}
                keys == SortTuples({<<r.productCode_1, TextRank(r.productName_1),
                                      r.productCode_2, TextRank(r.productName_2)>> : r \in pairs})
            IN  [k \in DOMAIN keys |->
                    LET rows == {r \in pairs : /\ r.productCode_1 = keys[k][1]
                                                /\ r.productCode_2 = keys[k][3]}
                        one == CHOOSE r \in rows : TRUE
                    IN  [productCode_1 |-> one.productCode_1, productName_1 |-> one.productName_1,
                         productCode_2 |-> one.productCode_2, productName_2 |-> one.productName_2,
                         cooccurrence_count |-> Cardinality(rows)]]
        \* The measures of one pair: orders of each product, support, the two
        \* confidences, the co-occurrence expected under independence and the lift,
        \* each rounded to four decimals (in ten-thousandths).
        PairMeasures(pair, product1_orders, product2_orders, total_orders) ==
            pair @@
            [product1_orders |-> product1_orders,
             product2_orders |-> product2_orders,
             total_orders |-> total_orders,
             support |-> Round4(pair.cooccurrence_count, total_orders),
             confidence_from_p1 |-> Round4(pair.cooccurrence_count, product1_orders),
             confidence_from_p2 |-> Round4(pair.cooccurrence_count, product2_orders),
             expected_cooccurrence |->
                 Round4(product1_orders * product2_orders, total_orders),
             lift |-> Round4(pair.cooccurrence_count * total_orders,
                             product1_orders * product2_orders)]
    IN  UNION {SortValuesDesc(measured, "cooccurrence_count") :
            measured \in
                {Rows([i \in DOMAIN pair_counts |->
                     The({PairMeasures(pair_counts[i], product1_orders, product2_orders,
                                       total_orders) :
                             product1_orders \in
                                 {ProductOrderCount(base, pair_counts[i].productCode_1)},
                             product2_orders \in
                                 {ProductOrderCount(base, pair_counts[i].productCode_2)}})]) :
                    pair_counts \in
                        {SelectSeq(PairCounts, LAMBDA r :
                             r.cooccurrence_count >= min_cooccurrence)},
                    total_orders \in {NUnique(base, "orderNumber")}}}

----------------------------------------------------------------------------
(* The summary builders: calculate_customer_concentration,                 *)
(* create_kpi_card_data, get_context_banner_data and                       *)
(* calculate_diagnostic_summary                                            *)

\* The percentage, in hundredths, of total_sales held by the first top_n
\* rows of the table sorted by total_sales, largest first; NaN for 0/0.
\* The sum of the first top_n values does not depend on the order of ties.
TopShare(table, top_n) ==
    LET df_sorted == CHOOSE s \in SortValuesDesc(table, "total_sales") : TRUE
        top_revenue == SumCol(SubSeq(df_sorted, 1, Min(top_n, Len(df_sorted))), "total_sales")
        total_revenue == SumCol(df_sorted, "total_sales")
    IN  PctCell(top_revenue, total_revenue)

\* utils/_aggregations.py, the implementation build_datasets uses.  A
\* share of the customers is the fraction <<numerator, denominator>>, 0.2
\* is <<1, 5>>, and top_n is int(len(df_sorted) * top_pct).
calculate_customer_concentration(customers, top_pct) ==
    LET top_n == (Len(customers) * top_pct[1]) \div top_pct[2]
    IN  TopShare(customers, top_n)

\* utils/data.py, the implementation load_datasets uses: 0.0 for an empty
\* table and for a total of 0.
data_calculate_customer_concentration(customers, top_pct) ==
    IF customers = <<>> THEN F(0)
    ELSE IF SumCol(customers, "total_sales") = 0 THEN F(0)
    ELSE LET top_n == (Len(customers) * top_pct[1]) \div top_pct[2]
         IN  TopShare(customers, IF top_n < 1 THEN 1 ELSE top_n)

\* The one-row table of KPI cards; `monthly' has its year column, and
\* `now_year' is datetime.now().year.  A KPI of the two years is the pair
\* <<current, previous>>; a mean is the fraction <<sum, count>>, NaN of no
\* month.
create_kpi_card_data(monthly, base, payments, customers, products, now_year) ==
    LET years == SortInts({monthly[i].year : i \in DOMAIN monthly})
        current_year == IF years = <<>> THEN now_year ELSE years[Len(years)]
        previous_year == IF Len(years) >= 2 THEN years[Len(years) - 1]
                         ELSE current_year - 1
        df_current == SelectSeq(monthly, LAMBDA r : r.year = current_year)
        df_previous == SelectSeq(monthly, LAMBDA r : r.year = previous_year)
        Both(col, Agg(_, _)) == <<Agg(df_current, col), Agg(df_previous, col)>>
        Mean(rows, col) == IF rows = <<>> THEN NaN ELSE <<SumCol(rows, col), Len(rows)>>
        \* groupby('customerNumber') drops the payments of no customer; NaN
        \* for 0/0 and inf, <<1, 0>>, for x/0.
        calculate_payment_coverage ==
            LET paid == SumCol(SelectSeq(payments, LAMBDA r : r.customerNumber # NaN),
                               "amount")
                sales == SumCol(base, "lineSales")
            IN  IF sales = 0 /\ paid # 0 THEN <<1, 0>> ELSE PctCell(paid, sales)
        calculate_product_concentration == TopShare(products, 10)
        concentration == calculate_customer_concentration(customers, <<1, 5>>)
    IN  <<[current_year |-> current_year,
           previous_year |-> previous_year,
           Total_Revenue |-> Both("totalSales", SumCol),
           Total_Orders |-> Both("totalOrders", SumCol),
           AOV |-> Both("avgOrderValue", Mean),
           OnTimeRate |-> Both("onTimeRate_pct", Mean),
           PaymentCoverage |-> <<calculate_payment_coverage, calculate_payment_coverage>>,
           CustomerConcentration |-> <<concentration, concentration>>,
           ProductConcentration |->
               <<calculate_product_concentration, calculate_product_concentration>>]>>

get_context_banner_data(base, offices, employees) ==
    [offices |-> NUnique(offices, "officeCode"),
     sales_reps |-> NUnique(employees, "employeeNumber"),
     countries_served |-> Cardinality(Range(Column(base, "country")) \ {None}),
     customers |-> NUnique(base, "customerNumber")]

\* utils/_aggregations.py, the implementation build_datasets uses.  The
\* percentage, in tenths, is a division of two Python ints:
\* round(high_risk_count / df_misalignment['customerNumber'].nunique() * 100, 1)
calculate_diagnostic_summary(high_risk, misalignment) ==
    LET \* str.contains(part): the categories that hold the text.
        Matching(categories) ==
            Len(SelectSeq(misalignment, LAMBDA r : r.misalignmentCategory \in categories))
        high_risk_count == Len(high_risk)
        misaligned == NUnique(misalignment, "customerNumber")
    IN  IF misaligned = 0 THEN Raises("ZeroDivisionError")
        ELSE Ok([high_risk_customers_count |-> high_risk_count,
                 high_risk_customers_pct |-> RoundDiv(1000 * high_risk_count, misaligned),
                 amount_at_risk |-> SumCol(high_risk, "amount_at_risk"),
                 misalignment_count |-> Len(misalignment),
                 over_credited_count |-> Matching({HIGH_CREDIT, MIS_HIGH_CREDIT}),
                 under_credited_count |-> Matching({LOW_CREDIT, MIS_LOW_CREDIT})])

\* utils/data.py, the implementation load_datasets uses: 0.0 over an empty
\* misalignment table.
data_calculate_diagnostic_summary(high_risk, misalignment) ==
    LET Matching(categories) ==
            Len(SelectSeq(misalignment, LAMBDA r : r.misalignmentCategory \in categories))
        hr_count == Len(high_risk)
        base_den == NUnique(misalignment, "customerNumber")
    IN  [high_risk_customers_count |-> hr_count,
         high_risk_customers_pct |->
             IF base_den = 0 THEN 0 ELSE RoundDiv(1000 * hr_count, base_den),
         amount_at_risk |-> SumCol(high_risk, "amount_at_risk"),
         misalignment_count |-> Len(misalignment),
         over_credited_count |-> Matching({HIGH_CREDIT, MIS_HIGH_CREDIT}),
         under_credited_count |-> Matching({LOW_CREDIT, MIS_LOW_CREDIT})]

----------------------------------------------------------------------------
(* The raw tables *)

MaxLines == 3

df_employees ==
    <<[employeeNumber |-> 11, firstName |-> "Ana", lastName |-> "Diaz",
       jobTitle |-> "Sales Rep", officeCode |-> "O1"],
      [employeeNumber |-> 12, firstName |-> "Bo", lastName |-> "Lee",
       jobTitle |-> "Sales Rep", officeCode |-> "O2"]>>

\* Product 3 is sold (order 4) and is not in the products table.
df_products ==
    <<[productCode |-> 1, productName |-> "Car", productLine |-> "Classic Cars"],
      [productCode |-> 2, productName |-> "Moto", productLine |-> "Motorcycles"]>>

\* Customer 3 has no sales rep; customer 5 has a credit limit and no order.
Customers(credit) ==
    <<[customerNumber |-> 1, customerName |-> "Atelier", country |-> "France",
       city |-> "Nantes", creditLimit |-> F(credit[1]),
       salesRepEmployeeNumber |-> F(11)],
      [customerNumber |-> 2, customerName |-> "Baane", country |-> "USA",
       city |-> "NYC", creditLimit |-> F(credit[2]),
       salesRepEmployeeNumber |-> F(12)],
      [customerNumber |-> 3, customerName |-> "Cruz", country |-> "Portugal",
       city |-> "Lisboa", creditLimit |-> F(credit[3]),
       salesRepEmployeeNumber |-> NaN],
      [customerNumber |-> 5, customerName |-> "Dormant", country |-> "France",
       city |-> "Paris", creditLimit |-> F(500),
       salesRepEmployeeNumber |-> F(11)]>>

\* Order 1 is shipped on time, order 2 late, order 3 is not shipped yet;
\* the customer of order 4 is not in the customers table.
df_orders ==
    <<[orderNumber |-> 1, customerNumber |-> 1, orderDate |-> <<2004, 1, 10>>,
       requiredDate |-> <<2004, 1, 20>>, shippedDate |-> <<2004, 1, 15>>],
      [orderNumber |-> 2, customerNumber |-> 2, orderDate |-> <<2004, 1, 22>>,
       requiredDate |-> <<2004, 2, 1>>, shippedDate |-> <<2004, 2, 3>>],
      [orderNumber |-> 3, customerNumber |-> 3, orderDate |-> <<2004, 8, 5>>,
       requiredDate |-> <<2004, 8, 15>>, shippedDate |-> NaT],
      [orderNumber |-> 4, customerNumber |-> 9, orderDate |-> <<2004, 8, 20>>,
       requiredDate |-> <<2004, 8, 30>>, shippedDate |-> <<2004, 8, 25>>]>>

\* The (orderNumber, productCode) keys an order line may have.
LineKeys == {<<1, 1>>, <<1, 2>>, <<2, 1>>, <<2, 2>>, <<3, 1>>, <<4, 3>>}

\* <<quantityOrdered, priceEach>> of an order line: 0, 200, 300 and 500 in all.
LineAmounts == {<<1, 0>>, <<1, 200>>, <<1, 300>>, <<2, 250>>}

\* The orderdetails table with the keys K (in primary-key order) and the
\* amounts amt[k].
OrderDetails(K, amt) ==
    LET ks == SortTuples(K)
    IN  [i \in DOMAIN ks |->
            [orderNumber |-> ks[i][1], productCode |-> ks[i][2],
             quantityOrdered |-> amt[ks[i]][1], priceEach |-> amt[ks[i]][2]]]

DefaultCredit == <<1000, 0, 100>>

DefaultConfig ==
    [credit_ratio_threshold |-> DefaultRatioThreshold,
     recency_threshold_days |-> DefaultRecencyThresholdDays,
     ratio_threshold |-> DefaultRatioThreshold,
     min_cooccurrence |-> PipelineMinCooccurrence]

\* Customer 5 has paid and has bought nothing; one payment has no customer.
RawTables(orderdetails, credit) ==
    LET df_payments ==
            <<[customerNumber |-> F(1), amount |-> 200],
              [customerNumber |-> F(2), amount |-> 300],
              [customerNumber |-> F(5), amount |-> 100],
              [customerNumber |-> NaN, amount |-> 50]>>
        df_offices == <<[officeCode |-> "O1"], [officeCode |-> "O2"]>>
    IN  [orders |-> df_orders, orderdetails |-> orderdetails,
         customers |-> Customers(credit), products |-> df_products,
         employees |-> df_employees, payments |-> df_payments,
         offices |-> df_offices]

----------------------------------------------------------------------------
(* build_datasets, step by step *)

Steps ==
    <<"base", "monthly", "customers", "products", "regions", "salesreps",
      "high_risk", "misalignment", "geo_anomalies", "product_trends",
      "customer_rfm", "next_orders", "cross_sell", "kpi_cards", "context",
      "diagnostic_summary", "done">>

StepAfter(step) == Steps[(CHOOSE i \in DOMAIN Steps : Steps[i] = step) + 1]

\* Up to MaxLines order lines of any amounts; default thresholds.
Init ==
    /\ \E K \in SUBSET LineKeys :
         /\ Cardinality(K) <= MaxLines
         /\ \E amt \in [K -> LineAmounts] :
              raw = RawTables(OrderDetails(K, amt), DefaultCredit)
    /\ config = DefaultConfig
    /\ df_base = <<>>
    /\ base_columns = {}
    /\ datasets = <<>>
    /\ raised = None
    /\ engine = NoEngine
    /\ pc = "base"

Store(name, table) ==
    /\ datasets' = (name :> table) @@ datasets
    /\ pc' = StepAfter(pc)
    /\ UNCHANGED <<raw, config, df_base, base_columns, raised, engine>>

\* An exception leaves build_datasets: nothing is returned.
Raise(exception) ==
    /\ raised' = exception
    /\ pc' = "raised"
    /\ UNCHANGED <<raw, config, df_base, base_columns, datasets, engine>>

BuildEnrichedBase ==
    /\ pc = "base"
    /\ df_base' = build_enriched_base(raw.orders, raw.orderdetails, raw.customers,
                                      raw.products, raw.employees)
    /\ base_columns' = EnrichedColumns
    /\ pc' = StepAfter(pc)
    /\ UNCHANGED <<raw, config, datasets, raised, engine>>

CalculateMonthlyKpis ==
    /\ pc = "monthly"
    /\ Store("monthly", calculate_monthly_kpis(df_base))

AggregateCustomers ==
    /\ pc = "customers"
    /\ \E t \in aggregate_customers(df_base) : Store("customers", t)

AggregateProducts ==
    /\ pc = "products"
    /\ \E t \in aggregate_products(df_base) : Store("products", t)

AggregateByRegion ==
    /\ pc = "regions"
    /\ Store("regions", aggregate_by_region(df_base))

AggregateSalesreps ==
    /\ pc = "salesreps"
    /\ \E t \in aggregate_salesreps(df_base) : Store("salesreps", t)

\* The call returns its table, or ends the run with its exception.
Finish(name, result) ==
    IF result.exception # None THEN Raise(result.exception)
    ELSE Store(name, result.table)

\* RequireCreditLimit with an empty table in place of the exception.
DefaultCreditLimit(columns, table) ==
    IF "creditLimit" \in columns THEN Ok(table) ELSE Ok(<<>>)

\* if 'creditLimit' not in df_base.columns: raise ValueError(...), ahead of
\* the computation of the table.
RequireCreditLimit(columns, table) ==
    IF "creditLimit" \in columns THEN Ok(table) ELSE Raises("ValueError")

IdentifyHighRiskCustomers ==
    /\ pc = "high_risk"
    /\ Finish("high_risk",
              RequireCreditLimit(base_columns,
                  identify_high_risk_customers(df_base, config.credit_ratio_threshold,
                                               config.recency_threshold_days)))

IdentifyCreditMisalignment ==
    /\ pc = "misalignment"
    /\ Finish("misalignment",
              RequireCreditLimit(base_columns,
                  identify_credit_misalignment(df_base, config.ratio_threshold)))

CheckGeographicCreditAnomalies ==
    /\ pc = "geo_anomalies"
    /\ Finish("geo_anomalies",
              RequireCreditLimit(base_columns, check_geographic_credit_anomalies(df_base)))

CalculateProductDemandTrend ==
    /\ pc = "product_trends"
    /\ Finish("product_trends", calculate_product_demand_trend(df_base))

CalculateCustomerRfm ==
    /\ pc = "customer_rfm"
    /\ Finish("customer_rfm", calculate_customer_rfm(df_base))

CalculateCustomerNextOrderPrediction ==
    /\ pc = "next_orders"
    /\ Finish("next_orders", calculate_customer_next_order_prediction(df_base))

IdentifyProductCrossSellPairs ==
    /\ pc = "cross_sell"
    /\ \E t \in identify_product_cross_sell_pairs(df_base, config.min_cooccurrence) :
         Store("cross_sell", t)

\* df_monthly['year'] = ... assigns the column on the table of the caller,
\* the one build_datasets returns as "monthly"; pd.to_datetime raises on
\* the text 'NaT-01' of a month without an order date.
CreateKpiCardData ==
    /\ pc = "kpi_cards"
    /\ IF \E i \in DOMAIN datasets["monthly"] : datasets["monthly"][i].salesMonth = NaT
       THEN Raise("ValueError")
       ELSE \E now_year \in {2025, 2026},
               monthly \in {[i \in DOMAIN datasets["monthly"] |->
                                datasets["monthly"][i]
                                @@ [year |-> datasets["monthly"][i].salesMonth[1]]]} :
                /\ datasets' =
                       ("kpi_cards" :>
                            create_kpi_card_data(monthly, df_base, raw.payments,
                                                 datasets["customers"], datasets["products"],
                                                 now_year))
                       @@ ("monthly" :> monthly) @@ datasets
                /\ pc' = StepAfter(pc)
                /\ UNCHANGED <<raw, config, df_base, base_columns, raised, engine>>
GetContextBannerData ==
    /\ pc = "context"
    /\ Store("context", get_context_banner_data(df_base, raw.offices, raw.employees))
CalculateDiagnosticSummary ==
    /\ pc = "diagnostic_summary"
    /\ Finish("diagnostic_summary",
              calculate_diagnostic_summary(datasets["high_risk"], datasets["misalignment"]))
Next ==
    \/ BuildEnrichedBase
    \/ CalculateMonthlyKpis
    \/ AggregateCustomers
    \/ AggregateProducts
    \/ AggregateByRegion
    \/ AggregateSalesreps
    \/ IdentifyHighRiskCustomers
    \/ IdentifyCreditMisalignment
    \/ CheckGeographicCreditAnomalies
    \/ CalculateProductDemandTrend
    \/ CalculateCustomerRfm
    \/ CalculateCustomerNextOrderPrediction
    \/ IdentifyProductCrossSellPairs
    \/ CreateKpiCardData
    \/ GetContextBannerData
    \/ CalculateDiagnosticSummary

Spec == Init /\ [][Next]_vars

----------------------------------------------------------------------------
(* build_enriched_base on order lines with and without a parent order *)

\* Up to MaxLines order lines, those of order 5 without a row in orders;
\* the sales rep of customer 2 is employee 12 or the unknown employee 13.
InitBase ==
    /\ \E K \in SUBSET (LineKeys \cup {<<5, 1>>, <<5, 2>>}), salesRep \in {12, 13} :
         /\ Cardinality(K) <= MaxLines
         /\ \E amt \in [K -> LineAmounts] :
              raw = [RawTables(OrderDetails(K, amt), DefaultCredit)
                         EXCEPT !.customers[2].salesRepEmployeeNumber = F(salesRep)]
    /\ config = DefaultConfig
    /\ df_base = <<>>
    /\ base_columns = {}
    /\ datasets = <<>>
    /\ raised = None
    /\ engine = NoEngine
    /\ pc = "base"

SpecBase == InitBase /\ [][BuildEnrichedBase]_vars

----------------------------------------------------------------------------
(* load_sql_query *)

\* A file name is the sequence of its dot-separated parts: 'q.sql' is
\* <<"q", "sql">>.  A path below QUERIES_DIR is [folder, hidden, name]:
\* the file `name' of `folder', in the sub-folder '.sql' of it when
\* `hidden'.  The relative path is given as split at '/': its folder and
\* its file name.  The text read from a file is named by its path.
load_sql_query(relative_path, files) ==
    LET filename == relative_path.name
        \* os.path.splitext(filename)[0]: the name without its last part; a name
        \* of one part, or of leading dots only before it, has no extension.
        fname_no_ext ==
            IF \A i \in 1..(Len(filename) - 1) : filename[i] = "" THEN filename
            ELSE SubSeq(filename, 1, Len(filename) - 1)
        candidates ==
            <<[folder |-> relative_path.folder, hidden |-> TRUE, name |-> filename],
              [folder |-> relative_path.folder, hidden |-> TRUE, name |-> fname_no_ext],
              [folder |-> relative_path.folder, hidden |-> FALSE, name |-> filename],
              [folder |-> relative_path.folder, hidden |-> FALSE, name |-> fname_no_ext]>>
        existing == SelectSeq(candidates, LAMBDA c : c \in files)
    IN  IF existing = <<>> THEN Raises("FileNotFoundError") ELSE Ok(existing[1])

\* The query q of the folder 'analytical', asked for with or without its
\* extension, over every set of the files q, q.sql and q.sql.sql of the
\* folder and of its sub-folder '.sql'.
InitQuery ==
    /\ config \in [relative_path : [folder : {"analytical"},
                                    name : {<<"q">>, <<"q", "sql">>}],
                    files : SUBSET [folder : {"analytical"}, hidden : BOOLEAN,
                                    name : {<<"q">>, <<"q", "sql">>, <<"q", "sql", "sql">>}]]
    /\ raw = <<>>
    /\ df_base = <<>>
    /\ base_columns = {}
    /\ datasets = <<>>
    /\ raised = None
    /\ engine = NoEngine
    /\ pc = "load_sql_query"

LoadSqlQuery ==
    /\ pc = "load_sql_query"
    /\ LET sql == load_sql_query(config.relative_path, config.files)
       IN  IF sql.exception # None THEN Raise(sql.exception)
           ELSE /\ datasets' = ("sql" :> sql.table) @@ datasets
                /\ pc' = "done"
                /\ UNCHANGED <<raw, config, df_base, base_columns, raised, engine>>

SpecQuery == InitQuery /\ [][LoadSqlQuery]_vars

----------------------------------------------------------------------------
(* load_datasets and the DataEngine *)

\* The versioned queries of get_core_datasets, get_diagnostics and
\* get_predictive: the key of the dataset and the relative path of its SQL.
Queries ==
    [monthly |-> [folder |-> "predictive", name |-> <<"01_company_monthly_timeseries", "sql">>],
     customers |-> [folder |-> "analytical", name |-> <<"03_customer_deep_agg_phase2", "sql">>],
     products |-> [folder |-> "analytical", name |-> <<"02_products_deep_agg", "sql">>],
     regions |-> [folder |-> "analytical", name |-> <<"01_sales_by_country_vs_region", "sql">>],
     salesreps |-> [folder |-> "analytical",
                    name |-> <<"04_salesrep_performance_deep_agg", "sql">>],
     top_bottom |-> [folder |-> "analytical",
                     name |-> <<"06_top_bottom_product_by_productline", "sql">>],
     high_risk |-> [folder |-> "diagnostic", name |-> <<"04_high_risk_customers_ratio", "sql">>],
     misalignment |-> [folder |-> "diagnostic",
                       name |-> <<"03_credit_vs_sales_misalignment_ratio", "sql">>],
     geo_anomalies |-> [folder |-> "diagnostic",
                        name |-> <<"01_geographic_credit_anomalies", "sql">>],
     product_trends |-> [folder |-> "predictive",
                         name |-> <<"05_product_demand_trend_flag", "sql">>],
     customer_rfm |-> [folder |-> "predictive", name |-> <<"06_customer_rfm_score", "sql">>],
     next_orders |-> [folder |-> "predictive",
                      name |-> <<"07_customer_next_order_prediction", "sql">>],
     cross_sell |-> [folder |-> "predictive", name |-> <<"08_product_cross_sell_pairs", "sql">>]]

\* _execute_query with the exception of the failed query left to the caller.
execute_query_raising(relative_path, files, broken, result) ==
    LET sql == load_sql_query(relative_path, files)
    IN  IF sql.exception # None THEN sql
        ELSE IF sql.table \in broken THEN Raises("DatabaseError")
        ELSE Ok(result)

\* DataEngine._execute_query: the table `result' that the database returns
\* for the SQL; when the SQL is not found, or is one of `broken', whose
\* execution raises, `except Exception' returns pd.DataFrame().
execute_query(relative_path, files, broken, result) ==
    LET sql == load_sql_query(relative_path, files)
    IN  IF sql.exception # None \/ sql.table \in broken THEN Ok(<<>>) ELSE Ok(result)

\* close with the connection left as it is.
close_skipped(e) == e

\* DataEngine.close
close(e) == [conn |-> "closed", log |-> Append(e.log, "close")]

\* The database has three order lines.  db_path names nothing, a folder
\* (which sqlite3.connect cannot open) or the database file; the tables
\* of `unreadable' cannot be read; the SQL files of `present' exist, in the
\* folder '.sql' of their area; the SQL of `broken' does not execute; a
\* KeyboardInterrupt, which is not an Exception, arrives at step
\* `interrupt'.  Every set of `query_sets' is tried as the set of present
\* files, with readable tables.
\* The SQL files are not part of the sources: `results' is what the
\* database returns for each query, with the columns load_datasets reads
\* for the five queries whose result it reads and a row of its own for the
\* queries whose result it only passes on.
LoadConfigs(query_sets) ==
    LET results ==
            [monthly |->
                 <<[salesMonth |-> <<2003, 12>>, totalSales |-> 400, totalOrders |-> 1,
                    avgOrderValue |-> 400, onTimeRate_pct |-> 10000],
                   [salesMonth |-> <<2004, 1>>, totalSales |-> 500, totalOrders |-> 2,
                    avgOrderValue |-> 250, onTimeRate_pct |-> 5000],
                   [salesMonth |-> <<2004, 8>>, totalSales |-> 500, totalOrders |-> 1,
                    avgOrderValue |-> 500, onTimeRate_pct |-> 0]>>,
             customers |->
                 <<[customerNumber |-> 3, totalSales |-> 500, totalUnits |-> 2,
                    abc_class |-> "A"],
                   [customerNumber |-> 2, totalSales |-> 300, totalUnits |-> 1,
                    abc_class |-> "B"],
                   [customerNumber |-> 1, totalSales |-> 200, totalUnits |-> 1,
                    abc_class |-> "C"]>>,
             products |-> <<[productCode |-> 1, totalSales |-> 1000, totalUnits |-> 4]>>,
             high_risk |->
                 <<[customerNumber |-> 1, country |-> "France", totalSales |-> 200,
                    ratioFlag |-> HIGH_CREDIT, amount_at_risk |-> 1000],
                   [customerNumber |-> 2, country |-> "USA", totalSales |-> 300,
                    ratioFlag |-> None, amount_at_risk |-> 300],
                   [customerNumber |-> 3, country |-> "Portugal", totalSales |-> 500,
                    ratioFlag |-> LOW_CREDIT, amount_at_risk |-> 500]>>,
             misalignment |->
                 <<[customerNumber |-> 1, misalignmentCategory |-> MIS_HIGH_CREDIT],
                   [customerNumber |-> 3, misalignmentCategory |-> MIS_LOW_CREDIT]>>]
            @@ [q \in DOMAIN Queries |-> <<[query |-> q]>>]
        database ==
            RawTables(OrderDetails({<<1, 1>>, <<2, 1>>, <<3, 1>>},
                                   (<<1, 1>> :> <<1, 200>>) @@ (<<2, 1>> :> <<1, 300>>) @@
                                   (<<3, 1>> :> <<2, 250>>)),
                      DefaultCredit)
        HiddenFiles(names) ==
            {[folder |-> Queries[q].folder, hidden |-> TRUE, name |-> Queries[q].name] :
                 q \in names}
        Load(db_path, unreadable, interrupt, present, broken) ==
            [db_path |-> db_path, database |-> database, results |-> results,
             unreadable |-> unreadable,
             interrupt |-> interrupt, files |-> HiddenFiles(present),
             broken |-> HiddenFiles(broken)]
    IN  {Load(db_path, {}, None, DOMAIN Queries, {}) : db_path \in {"missing", "folder"}}
        \cup {Load("file", {}, None, present, {}) : present \in query_sets}
        \cup {Load("file", {}, None, DOMAIN Queries, broken) :
                  broken \in SUBSET {"monthly", "customers", "high_risk", "misalignment"}}
        \cup {Load("file", unreadable, interrupt, present, {}) :
                  unreadable \in SUBSET {"orders", "employees", "payments", "offices"},
                  interrupt \in {None, "raw_inputs", "build_base", "sql_datasets",
                                 "summaries"},
                  present \in {{}, DOMAIN Queries}}

\* load_datasets is called, with any set of the SQL files present.
InitLoad ==
    /\ config \in LoadConfigs(SUBSET DOMAIN Queries)
    /\ raw = <<>>
    /\ df_base = <<>>
    /\ base_columns = {}
    /\ datasets = <<>>
    /\ raised = None
    /\ engine = NoEngine
    /\ pc = "load_datasets"

\* An exception inside the try block: the finally clause runs next.
Fail(exception) ==
    /\ raised' = exception
    /\ pc' = "finally"
    /\ UNCHANGED <<raw, config, df_base, base_columns, datasets, engine>>

\* os.path.exists(db_path), then DataEngine(db_path), ahead of the try.
OpenDataEngine ==
    /\ pc = "load_datasets"
    /\ IF config.db_path = "missing" THEN Raise("FileNotFoundError")
       ELSE IF config.db_path = "folder" THEN Raise("OperationalError")
       ELSE /\ engine' = [conn |-> "open", log |-> <<"connect">>]
            /\ pc' = "raw_inputs"
            /\ UNCHANGED <<raw, config, df_base, base_columns, datasets, raised>>

\* get_raw_inputs: get_table returns pd.DataFrame() for a table it cannot
\* read.
GetRawInputs ==
    /\ pc = "raw_inputs"
    /\ IF config.interrupt = pc THEN Fail("KeyboardInterrupt")
       ELSE /\ raw' = [t \in DOMAIN config.database |->
                          IF t \in config.unreadable THEN <<>> ELSE config.database[t]]
            /\ engine' = [engine EXCEPT !.log = @ \o [t \in 1..7 |-> "read"]]
            /\ pc' = "build_base"
            /\ UNCHANGED <<config, df_base, base_columns, datasets, raised>>

\* build_enriched_base of utils/data.py: the merges of utils/_aggregations.py
\* and _fix_country_names; a merged table without columns is a KeyError.
LoadBuildEnrichedBase ==
    /\ pc = "build_base"
    /\ IF config.interrupt = pc THEN Fail("KeyboardInterrupt")
       ELSE IF \E t \in {"orders", "orderdetails", "customers", "products", "employees"} :
                    raw[t] = <<>>
       THEN Fail("KeyError")
       ELSE LET country_fix == [c \in {"USA"} |-> "United States"] @@
                               [c \in {"UK", "England"} |-> "United Kingdom"]
                base == build_enriched_base(raw.orders, raw.orderdetails, raw.customers,
                                            raw.products, raw.employees)
            IN  /\ df_base' =
                       [i \in DOMAIN base |->
                           [base[i] EXCEPT !.country =
                               IF @ \in DOMAIN country_fix THEN country_fix[@] ELSE @]]
                /\ base_columns' = EnrichedColumns
                /\ pc' = "sql_datasets"
                /\ UNCHANGED <<raw, config, datasets, raised, engine>>

\* The thirteen queries, then the tables load_datasets keeps.
\* _ensure_monthly_year adds year and month to a monthly table that has
\* rows; _rename_sales_columns renames totalSales and totalUnits.
GetSqlDatasets ==
    /\ pc = "sql_datasets"
    /\ IF config.interrupt = pc THEN Fail("KeyboardInterrupt")
       ELSE LET Rename(t, old, new) ==
                    [i \in DOMAIN t |->
                        IF old \in DOMAIN t[i] /\ new \notin DOMAIN t[i]
                        THEN [c \in (DOMAIN t[i] \ {old}) \cup {new} |->
                                 IF c = new THEN t[i][old] ELSE t[i][c]]
                        ELSE t[i]]
                Kept(q, t) ==
                    IF q = "monthly"
                    THEN [i \in DOMAIN t |->
                             IF "salesMonth" \in DOMAIN t[i] /\ "year" \notin DOMAIN t[i]
                             THEN t[i] @@ [year |-> t[i].salesMonth[1],
                                           month |-> t[i].salesMonth[2]]
                             ELSE t[i]]
                    ELSE IF q \in {"customers", "products", "regions", "salesreps"}
                    THEN Rename(Rename(t, "totalSales", "total_sales"),
                                "totalUnits", "total_units")
                    ELSE t
            IN  \E read \in {[q \in DOMAIN Queries |->
                                 execute_query(Queries[q], config.files, config.broken,
                                               config.results[q])]} :
                    IF \E q \in DOMAIN read : read[q].exception # None
                    THEN Fail("DatabaseError")
                    ELSE /\ datasets' = [q \in DOMAIN Queries \ {"top_bottom"} |->
                                            Kept(q, read[q].table)]
                         /\ engine' = [engine EXCEPT
                                          !.log = @ \o [q \in 1..Cardinality(DOMAIN Queries) |->
                                                           "query"]]
                         /\ pc' = "summaries"
                         /\ UNCHANGED <<raw, config, df_base, base_columns, raised>>

\* create_kpi_card_data, get_context_banner_data and
\* calculate_diagnostic_summary of utils/data.py, the data quality, the risk
\* by country and the dict that is returned.  A KPI of the two years is the
\* pair <<current, previous>>; every KPI of a table without rows, or
\* without the column, is 0.
BuildSummaries ==
    /\ pc = "summaries"
    /\ IF config.interrupt = pc THEN Fail("KeyboardInterrupt")
       ELSE LET dfm == datasets.monthly
                HasColumn(t, col) == t # <<>> /\ col \in DOMAIN t[1]
                years == IF HasColumn(dfm, "year")
                         THEN SortInts({dfm[i].year : i \in DOMAIN dfm}) ELSE <<>>
                current_year == IF years = <<>> THEN 2024 ELSE years[Len(years)]
                previous_year == IF Len(years) > 1 THEN years[Len(years) - 1]
                                 ELSE current_year - 1
                OfYear(year) == IF HasColumn(dfm, "year")
                                THEN SelectSeq(dfm, LAMBDA r : r.year = year) ELSE dfm
                safe_sum(t, col) == IF HasColumn(t, col) THEN SumCol(t, col) ELSE 0
                safe_mean(t, col) ==
                    IF HasColumn(t, col) THEN <<SumCol(t, col), Len(t)>> ELSE <<0, 1>>
                Both(col, Agg(_, _)) ==
                    <<Agg(OfYear(current_year), col), Agg(OfYear(previous_year), col)>>
                calculate_payment_coverage ==
                    LET sales == SumCol(df_base, "lineSales")
                        paid == SumCol(SelectSeq(raw.payments,
                                                 LAMBDA r : r.customerNumber # NaN), "amount")
                    IN  IF df_base = <<>> \/ sales = 0 THEN F(0) ELSE PctCell(paid, sales)
                calculate_product_concentration ==
                    IF ~HasColumn(datasets.products, "total_sales") THEN F(0)
                    ELSE IF SumCol(datasets.products, "total_sales") = 0 THEN F(0)
                    ELSE TopShare(datasets.products, 10)
                concentration ==
                    IF ~HasColumn(datasets.customers, "total_sales") THEN F(0)
                    ELSE data_calculate_customer_concentration(datasets.customers, <<1, 5>>)
                invalid_count ==
                    Len(SelectSeq(df_base, LAMBDA r :
                            \/ ToDatetimeCoerce(r.orderDate) = NaT
                            \/ ToDatetimeCoerce(r.shippedDate) = NaT
                            \/ ToDatetimeCoerce(r.requiredDate) = NaT))
                countries == SortInts({TextRank(datasets.high_risk[i].country) :
                                           i \in DOMAIN datasets.high_risk})
            IN  /\ datasets' =
                       [base |-> df_base,
                        kpi_cards |->
                            <<[current_year |-> current_year,
                               previous_year |-> previous_year,
                               Total_Revenue |-> Both("totalSales", safe_sum),
                               Total_Orders |-> Both("totalOrders", safe_sum),
                               AOV |-> Both("avgOrderValue", safe_mean),
                               OnTimeRate |-> Both("onTimeRate_pct", safe_mean),
                               PaymentCoverage |->
                                   <<calculate_payment_coverage, calculate_payment_coverage>>,
                               CustomerConcentration |-> <<concentration, concentration>>,
                               ProductConcentration |->
                                   <<calculate_product_concentration,
                                     calculate_product_concentration>>]>>,
                        context |->
                            [offices |-> NUnique(raw.offices, "officeCode"),
                             sales_reps |-> NUnique(raw.employees, "employeeNumber"),
                             countries_served |->
                                 Cardinality(Range(Column(df_base, "country")) \ {None}),
                             customers |-> NUnique(df_base, "customerNumber")],
                        diagnostic_summary |->
                            data_calculate_diagnostic_summary(datasets.high_risk,
                                                              datasets.misalignment),
                        data_quality |->
                            [invalid_date_rows |-> invalid_count,
                             invalid_date_pct |->
                                 RoundDiv(10000 * invalid_count,
                                          IF df_base = <<>> THEN 1 ELSE Len(df_base))],
                        risk_by_country |->
                            IF HasColumn(datasets.high_risk, "amount_at_risk")
                            THEN [i \in DOMAIN countries |->
                                     [country |-> IF TextOrder[countries[i]] = "USA"
                                                  THEN "United States"
                                                  ELSE TextOrder[countries[i]],
                                      risk_amount |->
                                          SumCol(SelectSeq(datasets.high_risk, LAMBDA r :
                                                     TextRank(r.country) = countries[i]),
                                                 "amount_at_risk")]]
                            ELSE <<>>,
                        customers_abc_counts |->
                            IF HasColumn(datasets.customers, "abc_class")
                            THEN [i \in DOMAIN datasets.customers |->
                                     [abc_class |-> datasets.customers[i].abc_class, n |-> 1]]
                            ELSE <<>>,
                        top_products_long |->
                            [i \in DOMAIN df_base |->
                                [productName |-> df_base[i].productName, n |-> 1]]]
                       @@ datasets
                /\ pc' = "finally"
                /\ UNCHANGED <<raw, config, df_base, base_columns, raised, engine>>

\* finally: engine.close(); then the dict is returned, or the exception
\* goes on to the caller.
CloseDataEngine ==
    /\ pc = "finally"
    /\ engine' = close(engine)
    /\ pc' = IF raised = None THEN "done" ELSE "raised"
    /\ UNCHANGED <<raw, config, df_base, base_columns, datasets, raised>>

NextLoad ==
    \/ OpenDataEngine
    \/ GetRawInputs
    \/ LoadBuildEnrichedBase
    \/ GetSqlDatasets
    \/ BuildSummaries
    \/ CloseDataEngine

SpecLoad == InitLoad /\ [][NextLoad]_vars

----------------------------------------------------------------------------
(* calculate_customer_concentration on customer tables of every size *)

MaxCustomers == 4

\* A customers table of 1..MaxCustomers rows, as aggregate_customers and
\* the customers query leave it, and the share of the customers to take:
\* the default 0.2, 0.25, 0.5, 0.75 or 1.
InitConcentration ==
    /\ \E n \in 1..MaxCustomers :
           \E sales \in [1..n -> {0, 100, 200, 300}] :
               datasets = ("customers" :>
                              [i \in 1..n |-> [customerNumber |-> i,
                                               total_sales |-> sales[i]]])
    /\ config \in [top_pct : {<<1, 5>>, <<1, 4>>, <<1, 2>>, <<3, 4>>, <<1, 1>>}]
    /\ raw = <<>>
    /\ df_base = <<>>
    /\ base_columns = {}
    /\ raised = None
    /\ engine = NoEngine
    /\ pc = "customer_concentration"

\* Both implementations are called on the table.
CalculateCustomerConcentration ==
    /\ pc = "customer_concentration"
    /\ datasets' =
           ("customer_concentration" :>
                [build_datasets |->
                     calculate_customer_concentration(datasets["customers"], config.top_pct),
                 load_datasets |->
                     data_calculate_customer_concentration(datasets["customers"],
                                                           config.top_pct)])
           @@ datasets
    /\ pc' = "done"
    /\ UNCHANGED <<raw, config, df_base, base_columns, raised, engine>>

SpecConcentration == InitConcentration /\ [][CalculateCustomerConcentration]_vars

----------------------------------------------------------------------------
(* Credit limits and thresholds varied over fixed sales *)

InitCredit ==
    LET
        RatioThresholds == {<<1, 2>>, <<1, 1>>, <<2, 1>>}
        RecencyThresholds == {30, DefaultRecencyThresholdDays}
        CreditLimits == {0, 150, 300, 1000}
        \* Customer 1 bought for 0, customer 2 for 300 and customer 3 for 500.
        CreditOrderDetails ==
            OrderDetails({<<1, 1>>, <<2, 1>>, <<2, 2>>, <<3, 2>>},
                         (<<1, 1>> :> <<1, 0>>) @@ (<<2, 1>> :> <<1, 300>>) @@
                         (<<2, 2>> :> <<1, 0>>) @@ (<<3, 2>> :> <<2, 250>>))
    IN  /\ \E credit \in [1..3 -> CreditLimits] :
             raw = RawTables(CreditOrderDetails, credit)
        /\ config \in [credit_ratio_threshold : RatioThresholds,
                       recency_threshold_days : RecencyThresholds,
                       ratio_threshold : RatioThresholds,
                       min_cooccurrence : {PipelineMinCooccurrence}]
        /\ df_base = <<>>
        /\ base_columns = {}
        /\ datasets = <<>>
        /\ raised = None
        /\ engine = NoEngine
        /\ pc = "base"

SpecCredit == InitCredit /\ [][Next]_vars

----------------------------------------------------------------------------
(* The diagnostic scanners called on a fact table of the caller *)

ScannerSteps == {"high_risk", "misalignment", "geo_anomalies"}

\* df_base as the caller passes it: the enriched base of up to MaxLines
\* order lines, whole or without its creditLimit column.
InitScan ==
    LET
        \* A table without one of its columns.
        DropColumn(rows, col) ==
            [i \in DOMAIN rows |-> [c \in DOMAIN rows[i] \ {col} |-> rows[i][c]]]
    IN  /\ \E K \in SUBSET LineKeys :
             /\ Cardinality(K) <= MaxLines
             /\ \E amt \in [K -> LineAmounts] :
                  raw = RawTables(OrderDetails(K, amt), DefaultCredit)
        /\ config = DefaultConfig
        /\ \E base \in {build_enriched_base(raw.orders, raw.orderdetails, raw.customers,
                                            raw.products, raw.employees)} :
             \/ df_base = base /\ base_columns = EnrichedColumns
             \/ /\ df_base = DropColumn(base, "creditLimit")
                /\ base_columns = EnrichedColumns \ {"creditLimit"}
        /\ datasets = <<>>
        /\ raised = None
        /\ engine = NoEngine
        /\ pc \in ScannerSteps

NextScan ==
    \/ IdentifyHighRiskCustomers
    \/ IdentifyCreditMisalignment
    \/ CheckGeographicCreditAnomalies

SpecScan == InitScan /\ [][NextScan]_vars

----------------------------------------------------------------------------
(* A portfolio of customers, one per country, for the country scan, the    *)
(* RFM scores and the next-order prediction                                *)

NumCountries == 10
MaxOrders == 3

\* The raw tables of a portfolio.  Customer i of `customers' lives in
\* country[i], has the credit limit credit[i] and has placed freq[i]
\* orders, the k-th on day day[i] of month k of 2004, each of one line of
\* price[i].
PortfolioRaw(customers, country, credit, freq, day, price) ==
    LET PortfolioNames ==
            <<"Client 01", "Client 02", "Client 03", "Client 04", "Client 05",
              "Client 06", "Client 07", "Client 08", "Client 09", "Client 10",
              "Client 11", "Client 12", "Client 13">>
        PortfolioCountries ==
            <<"Austria", "Belgium", "Canada", "Denmark", "Finland", "Germany",
              "Ireland", "Italy", "Japan", "Norway", "Spain", "Sweden">>
        ks == SortTuples({ik \in customers \X (1..MaxOrders) : ik[2] <= freq[ik[1]]})
        ls == SortTuples({<<10 * k[1] + k[2], 1>> : k \in Range(ks)}
                             \cup {<<10 * k[1] + 2, 2>> : k \in {k \in Range(ks) : k[2] = 2}})
        cs == SortInts(customers)
        date(k, shift) == <<2004, k[2], day[k[1]] + shift + (IF k[2] = 3 THEN 1 ELSE 0)>>
    IN  [orders |->
             [n \in DOMAIN ks |->
                 [orderNumber |-> 10 * ks[n][1] + ks[n][2],
                  customerNumber |-> ks[n][1],
                  orderDate |-> date(ks[n], 0),
                  requiredDate |-> date(ks[n], 7),
                  shippedDate |-> date(ks[n], 2)]],
         orderdetails |->
             [n \in DOMAIN ls |->
                 [orderNumber |-> ls[n][1], productCode |-> ls[n][2],
                  quantityOrdered |-> 1,
                  priceEach |-> IF ls[n][2] = 2 THEN 10 ELSE price[ls[n][1] \div 10]]],
         customers |->
             [n \in DOMAIN cs |->
                 [customerNumber |-> cs[n], customerName |-> PortfolioNames[cs[n]],
                  country |-> PortfolioCountries[country[cs[n]]], city |-> "Other",
                  creditLimit |-> F(credit[cs[n]]), salesRepEmployeeNumber |-> F(11)]],
         products |-> df_products,
         employees |-> df_employees]

\* The portfolios: customers 1..count in countries of their own;
\* with `shared', one more customer in the first country; with `idle', one
\* more customer in a further country whose orders are worth nothing; with
\* `uniform', every customer of the same credit, orders, day and price.
\* The shared customer has the largest credit limit.
Portfolio(count, shift, step, shared, idle, uniform) ==
    LET own == 1..count
        customers == own \cup (IF shared THEN {NumCountries + 1} ELSE {})
                         \cup (IF idle THEN {NumCountries + 2} ELSE {})
    IN  PortfolioRaw(
            customers,
            [i \in customers |-> IF i \in own THEN i
                                 ELSE IF i = NumCountries + 1 THEN 1
                                 ELSE NumCountries + 1],
            [i \in customers |-> IF uniform THEN 400
                                 ELSE IF i = NumCountries + 1 THEN 3000
                                 ELSE 100 * (1 + (i % 4))],
            [i \in customers |-> IF uniform THEN 2 ELSE 1 + ((i + shift) % MaxOrders)],
            [i \in customers |-> IF uniform THEN 5 ELSE 1 + ((3 * i) % 11)],
            [i \in customers |-> IF i = NumCountries + 2 THEN 0
                                 ELSE IF uniform THEN 200
                                 ELSE 100 + 10 * ((i * step) % 7)])

\* A function of PortfolioSteps is called on the enriched base of a
\* portfolio.
InitPortfolio ==
    LET PortfolioSteps == {"geo_anomalies", "customer_rfm", "next_orders"}
    IN  /\ \E count \in {1, NumCountries}, shift \in 0..2, step \in {1, 3},
              shared \in BOOLEAN, idle \in BOOLEAN, uniform \in BOOLEAN :
               raw = Portfolio(count, shift, step, shared, idle, uniform)
        /\ config = DefaultConfig
        /\ df_base = build_enriched_base(raw.orders, raw.orderdetails, raw.customers,
                                         raw.products, raw.employees)
        /\ base_columns = EnrichedColumns
        /\ datasets = <<>>
        /\ raised = None
        /\ engine = NoEngine
        /\ pc \in PortfolioSteps

NextPortfolio ==
    \/ CheckGeographicCreditAnomalies
    \/ CalculateCustomerRfm
    \/ CalculateCustomerNextOrderPrediction

SpecPortfolio == InitPortfolio /\ [][NextPortfolio]_vars

----------------------------------------------------------------------------
(* A history of one order a month, for the monthly KPIs, the demand trend  *)
(* and the cross-sell pairs                                                *)

MaxMonths == 14

\* A function of HistorySteps is called on the enriched base of a history,
\* cross-sell with its default threshold or with that of build_datasets.
InitHistory ==
    LET
        \* The order lines of a history.  Product 1 is on every order.  The first
        \* eight orders are baskets: product 2 is on the first `with2' of them,
        \* product 4 on the first `with4' and product 3 on orders 4 to 8; with
        \* `twice', order 1 has a second line of product 2.  In the last six
        \* months product 2 is sold for trend[1] three months before the last
        \* month and for trend[2] in the last month; -1 stands for no sale.
        HistoryLines(with2, with4, twice, trend) ==
            LET Line(orderNumber, productCode, priceEach) ==
                    [orderNumber |-> orderNumber, productCode |-> productCode,
                     quantityOrdered |-> 1, priceEach |-> priceEach]
            IN  [n \in 1..MaxMonths |-> Line(n, 1, 100 + 10 * (n % 5))]
                \o [n \in 1..with2 |-> Line(n, 2, 150)]
                \o (IF twice THEN <<Line(1, 2, 50)>> ELSE <<>>)
                \o [n \in 1..with4 |-> Line(n, 4, 300)]
                \o [n \in 1..5 |-> Line(n + 3, 3, 120)]
                \o (IF trend[1] >= 0 THEN <<Line(MaxMonths - 3, 2, trend[1])>> ELSE <<>>)
                \o (IF trend[2] >= 0 THEN <<Line(MaxMonths, 2, trend[2])>> ELSE <<>>)
        HistorySteps == {"monthly", "product_trends", "cross_sell"}
        \* <<sales three months before the last month, sales of the last month>>
        \* of product 2: a rise and a fall of exactly 15%, of a cent less and of a
        \* cent more, no earlier sale, no later sale and an earlier sale of 0.
        TrendSales ==
            {<<200, 230>>, <<200, 229>>, <<200, 231>>, <<2000, 2300>>,
             <<200, 170>>, <<200, 171>>, <<200, 169>>, <<2000, 1700>>, <<120, 102>>,
             <<-1, 200>>, <<200, -1>>, <<0, 200>>}
        \* Product 3 is sold and is not in the products table.
        HistoryProducts ==
            df_products \o <<[productCode |-> 4, productName |-> "Plane", productLine |-> "Planes"]>>
        \* Order n is placed on the 10th of month n.
        HistoryOrders ==
            LET
                \* Month n of the history; the first is November 2003.
                HistoryMonth(n) == <<2003 + (n + 9) \div 12, ((n + 9) % 12) + 1>>
            IN  [n \in 1..MaxMonths |->
                    [orderNumber |-> n, customerNumber |-> 1 + (n % 3),
                     orderDate |-> <<HistoryMonth(n)[1], HistoryMonth(n)[2], 10>>,
                     requiredDate |-> <<HistoryMonth(n)[1], HistoryMonth(n)[2], 20>>,
                     shippedDate |-> <<HistoryMonth(n)[1], HistoryMonth(n)[2], 15>>]]
    IN  /\ \E with2 \in {4, 5}, with4 \in {2, 3}, twice \in BOOLEAN, trend \in TrendSales :
               raw = [orders |-> HistoryOrders,
                      orderdetails |-> HistoryLines(with2, with4, twice, trend),
                      customers |-> Customers(DefaultCredit),
                      products |-> HistoryProducts,
                      employees |-> df_employees]
        /\ config \in [credit_ratio_threshold : {DefaultRatioThreshold},
                       recency_threshold_days : {DefaultRecencyThresholdDays},
                       ratio_threshold : {DefaultRatioThreshold},
                       min_cooccurrence : {DefaultMinCooccurrence, PipelineMinCooccurrence}]
        /\ df_base = build_enriched_base(raw.orders, raw.orderdetails, raw.customers,
                                         raw.products, raw.employees)
        /\ base_columns = EnrichedColumns
        /\ datasets = <<>>
        /\ raised = None
        /\ engine = NoEngine
        /\ pc \in HistorySteps

NextHistory ==
    \/ CalculateMonthlyKpis
    \/ CalculateProductDemandTrend
    \/ IdentifyProductCrossSellPairs

SpecHistory == InitHistory /\ [][NextHistory]_vars

----------------------------------------------------------------------------
(* Properties of the entity aggregators *)

Has(name) == name \in DOMAIN datasets

EntityNames == {"customers", "products", "salesreps"}

\* The entity aggregates computed so far.
EntityTables == {datasets[n] : n \in EntityNames \cap DOMAIN datasets}

TotalSalesOf(t) == SumCol(t, "total_sales")

\* The cumulative percent of row i of t is defined and <= threshold.
CumulativePctAtMost(t, i, threshold) ==
    /\ TotalSalesOf(t) > 0
    /\ 100 * SumCol(SubSeq(t, 1, i), "total_sales") <= threshold * TotalSalesOf(t)

RowsAtMost(t, threshold) ==
    Cardinality({i \in DOMAIN t : CumulativePctAtMost(t, i, threshold)})

\* The class of the row at 0-based sorted position p.
PositionalClass(t, p) ==
    IF p < RowsAtMost(t, 80) THEN "A"
    ELSE IF p < RowsAtMost(t, 95) THEN "B"
    ELSE "C"

SortedDescending(t) ==
    \A i \in 1..Len(t) - 1 : t[i].total_sales >= t[i + 1].total_sales

\* C1: every entity aggregate is sorted by total_sales descending and the
\* row at 0-based position p is class A if p < nA, B if nA <= p < nB and C
\* otherwise, with nA (nB) the number of rows whose cumulative percent is
\* <= 80 (<= 95); revenues 500, 300, 200 get the classes A, A, C.
C1_AbcPositional ==
    \A t \in EntityTables :
        /\ SortedDescending(t)
        /\ \A i \in DOMAIN t : t[i].abc_class = PositionalClass(t, i - 1)
        /\ Column(t, "total_sales") = <<500, 300, 200>>
               => Column(t, "abc_class") = <<"A", "A", "C">>

\* Three customers with revenues 500, 300, 200 have been classified.
C1_Witness ==
    /\ Has("customers")
    /\ Column(datasets["customers"], "total_sales") = <<500, 300, 200>>
    /\ Column(datasets["customers"], "abc_class") = <<"A", "A", "C">>

ClassCount(t, c) == Cardinality({i \in DOMAIN t : t[i].abc_class = c})

\* |A| + |B| + |C| = N with every class in {A, B, C}.
ClassesPartition(t) ==
    /\ \A i \in DOMAIN t : t[i].abc_class \in {"A", "B", "C"}
    /\ ClassCount(t, "A") + ClassCount(t, "B") + ClassCount(t, "C") = Len(t)

CumulativeNonDecreasing(t) ==
    \A i \in 1..Len(t) - 1 :
        /\ t[i].cumulative_pct_of_global_sales # NaN
        /\ t[i + 1].cumulative_pct_of_global_sales # NaN
        /\ Val(t[i].cumulative_pct_of_global_sales)
               <= Val(t[i + 1].cumulative_pct_of_global_sales)

LastCumulativeIs100(t) ==
    t # <<>> => t[Len(t)].cumulative_pct_of_global_sales = F(10000)

\* C2, unconditionally: in every entity aggregate the classes partition the rows,
\* the cumulative percent is non-decreasing and it is 100 on the last row.
C2_Original ==
    \A t \in EntityTables :
        ClassesPartition(t) /\ CumulativeNonDecreasing(t) /\ LastCumulativeIs100(t)

\* C2: the classes partition the rows; when the total revenue of
\* the groups is positive the cumulative percent is non-decreasing and is
\* 100 on the last row; when it is zero every cumulative percent is
\* undefined and every row is class C.
C2_AbcPartition ==
    \A t \in EntityTables :
        /\ ClassesPartition(t)
        /\ TotalSalesOf(t) > 0 => CumulativeNonDecreasing(t) /\ LastCumulativeIs100(t)
        /\ TotalSalesOf(t) = 0 =>
               \A i \in DOMAIN t :
                   /\ t[i].cumulative_pct_of_global_sales = NaN
                   /\ t[i].abc_class = "C"

\* An aggregate of several groups with positive revenue and two classes.
C2_Witness ==
    \E t \in EntityTables :
        /\ Len(t) >= 2
        /\ TotalSalesOf(t) > 0
        /\ ClassCount(t, "A") > 0
        /\ ClassCount(t, "C") > 0
        /\ t[Len(t)].cumulative_pct_of_global_sales = F(10000)

\* C3: the total_sales of every entity aggregate (customers, products,
\* sales reps, regions) add up to the lineSales of the fact table, also
\* when the fact table has rows with null customer, product or sales-rep
\* attributes.
C3_RevenueConservation ==
    \A n \in (EntityNames \cup {"regions"}) \cap DOMAIN datasets :
        SumCol(datasets[n], "total_sales") = SumCol(df_base, "lineSales")

\* sales_rank is the position, and of two rows with equal total_sales the
\* one whose group came first before the sort (the smaller key) is first.
StableRank(t, key) ==
    /\ SortedDescending(t)
    /\ \A i \in DOMAIN t : t[i].sales_rank = i
    /\ \A i, j \in DOMAIN t :
           (i < j /\ t[i].total_sales = t[j].total_sales) => t[i][key] < t[j][key]

\* C4: sales_rank is 1..N by descending total_sales and groups with equal
\* total_sales keep the order they had before the sort.
C4_StableRank ==
    /\ Has("customers") => StableRank(datasets["customers"], "customerNumber")
    /\ Has("products") => StableRank(datasets["products"], "productCode")
    /\ Has("salesreps") => StableRank(datasets["salesreps"], "employeeNumber")

----------------------------------------------------------------------------
(* Properties of the monthly KPIs *)

\* The fact rows whose order date lies in month m.
RowsOfMonth(m) ==
    SelectSeq(df_base, LAMBDA r : ToPeriodM(ToDatetimeCoerce(r.orderDate)) = m)

ShippedOnTime(r) ==
    /\ ToDatetimeCoerce(r.shippedDate) # NaT
    /\ ToDatetimeCoerce(r.requiredDate) # NaT
    /\ DateLE(ToDatetimeCoerce(r.shippedDate), ToDatetimeCoerce(r.requiredDate))

\* C5: the on-time count of a month is the number of its distinct orders
\* shipped on or before the required date, and the on-time rate is that
\* count over the distinct orders of the month, between 0 and 100.
C5_OnTimeDistinctOrders ==
    Has("monthly") =>
        \A i \in DOMAIN datasets["monthly"] :
            LET row == datasets["monthly"][i]
                rows == RowsOfMonth(row.salesMonth)
                onTime == {rows[k].orderNumber : k \in {k \in DOMAIN rows : ShippedOnTime(rows[k])}}
            IN  /\ row.onTimeOrders = Cardinality(onTime)
                /\ row.onTimeRate_pct = RoundDiv(10000 * Cardinality(onTime), row.totalOrders)
                /\ row.onTimeRate_pct \in 0..10000

AllDatesParse(r) ==
    /\ ToDatetimeCoerce(r.orderDate) # NaT
    /\ ToDatetimeCoerce(r.shippedDate) # NaT
    /\ ToDatetimeCoerce(r.requiredDate) # NaT

\* C6: a fact row with an order, shipped or required date that does not
\* parse contributes to no month: the month rows are the months of the
\* rows whose three dates parse, and their sales, orders and customers are
\* taken over those rows alone.
C6_InvalidDatesExcluded ==
    Has("monthly") =>
        LET valid == SelectSeq(df_base, AllDatesParse)
            months == {ToPeriodM(valid[k].orderDate) : k \in DOMAIN valid}
            monthly == datasets["monthly"]
        IN  /\ {monthly[i].salesMonth : i \in DOMAIN monthly} = months
            /\ \A i \in DOMAIN monthly :
                   LET rows == SelectSeq(valid,
                           LAMBDA r : ToPeriodM(r.orderDate) = monthly[i].salesMonth)
                   IN  /\ monthly[i].totalSales = SumCol(rows, "lineSales")
                       /\ monthly[i].totalOrders = NUnique(rows, "orderNumber")
                       /\ monthly[i].totalCustomers = NUnique(rows, "customerNumber")

----------------------------------------------------------------------------
(* Properties of the diagnostic scanners *)

\* The customers of the customers table that no order names.
CustomersWithoutOrders ==
    {c \in Range(raw.customers) :
        \A o \in Range(raw.orders) : o.customerNumber # c.customerNumber}

IsHighRisk(r) ==
    \/ r.ratioFlag # None
    \/ (r.daysSinceLastOrder # NaN
        /\ Val(r.daysSinceLastOrder) >= config.recency_threshold_days)
    \/ r.lastOrderDate = NaT

\* C7: the high-risk table holds exactly the customers with a ratio flag,
\* a stale last order or no order at all; a customer of the customers
\* table with a credit limit and no order is in it, flagged 'no orders'.
C7_HighRiskCustomers ==
    Has("high_risk") =>
        /\ \A r \in Range(datasets["high_risk"]) : IsHighRisk(r)
        /\ \A c \in CustomersWithoutOrders :
               c.creditLimit # NaN =>
                   \E r \in Range(datasets["high_risk"]) :
                       /\ r.customerNumber = c.customerNumber
                       /\ r.activityFlag = NO_ORDERS

HighCreditHolds(credit, sales, threshold) ==
    sales > 0 /\ credit * threshold[2] >= threshold[1] * sales

LowCreditHolds(credit, sales, threshold) ==
    credit > 0 /\ sales * threshold[2] >= threshold[1] * credit

\* C8: the ratio flag is 'high credit / low sales' when credit/sales >=
\* threshold with sales > 0, else 'low credit / high sales' when
\* sales/credit >= threshold with credit > 0, else none; high credit wins
\* when both hold.  The misalignment category follows the same rule.
C8_RatioFlag ==
    /\ Has("high_risk") =>
           \A r \in Range(datasets["high_risk"]) :
               r.ratioFlag =
                   IF HighCreditHolds(r.creditLimit, r.totalSales, config.credit_ratio_threshold)
                   THEN HIGH_CREDIT
                   ELSE IF LowCreditHolds(r.creditLimit, r.totalSales, config.credit_ratio_threshold)
                   THEN LOW_CREDIT
                   ELSE None
    /\ Has("misalignment") =>
           \A r \in Range(datasets["misalignment"]) :
               r.misalignmentCategory =
                   IF HighCreditHolds(r.creditLimit, r.totalSales, config.ratio_threshold)
                   THEN MIS_HIGH_CREDIT
                   ELSE IF LowCreditHolds(r.creditLimit, r.totalSales, config.ratio_threshold)
                   THEN MIS_LOW_CREDIT
                   ELSE NORMAL

\* A customer for which both conditions hold is flagged high credit.
C8_Witness ==
    /\ Has("high_risk")
    /\ \E r \in Range(datasets["high_risk"]) :
           /\ HighCreditHolds(r.creditLimit, r.totalSales, config.credit_ratio_threshold)
           /\ LowCreditHolds(r.creditLimit, r.totalSales, config.credit_ratio_threshold)
           /\ r.ratioFlag = HIGH_CREDIT

\* C9: amount_at_risk is the credit limit of a row flagged 'high credit /
\* low sales' and the total sales of every other row.
C9_AmountAtRisk ==
    Has("high_risk") =>
        \A r \in Range(datasets["high_risk"]) :
            r.amount_at_risk =
                IF r.ratioFlag = HIGH_CREDIT THEN r.creditLimit ELSE r.totalSales

\* The table holds a high-credit row, a low-credit row and an unflagged
\* row, each with a credit limit that differs from its sales.
C9_Witness ==
    /\ Has("high_risk")
    /\ \A flag \in {HIGH_CREDIT, LOW_CREDIT, None} :
           \E r \in Range(datasets["high_risk"]) :
               r.ratioFlag = flag /\ r.creditLimit # r.totalSales

\* The per-customer tables of the two scanners before their filters.
HighRiskRows ==
    Range(HighRiskCustomerSales(df_base, config.credit_ratio_threshold,
                                config.recency_threshold_days))

MisalignmentRows == Range(MisalignmentCustomerSales(df_base, config.ratio_threshold))

\* A ratio is null exactly when its denominator is 0, and then the flag
\* (or category) that rests on it is not raised.
UndefinedRatios(r, flag, high, low) ==
    /\ (r.credit_to_sales_ratio = NaN) <=> (r.totalSales = 0)
    /\ (r.sales_to_credit_ratio = NaN) <=> (r.creditLimit = 0)
    /\ r.totalSales = 0 => flag # high
    /\ r.creditLimit = 0 => flag # low

\* C10: in both scanners credit_to_sales_ratio is null exactly when
\* totalSales = 0 and sales_to_credit_ratio is null exactly when
\* creditLimit = 0, and a null ratio raises no flag: without sales there is
\* no high-credit flag and without credit no low-credit flag.
C10_UndefinedRatios ==
    pc # "base" =>
        /\ \A r \in HighRiskRows :
               UndefinedRatios(r, r.ratioFlag, HIGH_CREDIT, LOW_CREDIT)
        /\ \A r \in MisalignmentRows :
               UndefinedRatios(r, r.misalignmentCategory, MIS_HIGH_CREDIT, MIS_LOW_CREDIT)

\* The high-risk table holds a customer without sales and one without
\* credit, with the ratio undefined and no flag.
C10_Witness ==
    /\ Has("high_risk")
    /\ \E r \in Range(datasets["high_risk"]) :
           r.totalSales = 0 /\ r.creditLimit > 0
           /\ r.credit_to_sales_ratio = NaN /\ r.ratioFlag = None
    /\ \E r \in Range(datasets["high_risk"]) :
           r.creditLimit = 0 /\ r.totalSales > 0
           /\ r.sales_to_credit_ratio = NaN /\ r.ratioFlag = None

\* C11: a scanner called on a fact table without the creditLimit column
\* raises ValueError at once and stores no table: the credit limit is not
\* replaced by a default.
C11_MissingCreditLimitRaises ==
    [][(pc \in ScannerSteps /\ "creditLimit" \notin base_columns) =>
           (raised' = "ValueError" /\ pc' = "raised" /\ datasets' = datasets)]_vars

\* A scanner has raised ValueError on a fact table with rows and without
\* the creditLimit column, and no table has been stored.
C11_Witness ==
    /\ raised = "ValueError"
    /\ "creditLimit" \notin base_columns
    /\ df_base # <<>>
    /\ \A i \in DOMAIN df_base : "creditLimit" \notin DOMAIN df_base[i]
    /\ datasets = <<>>

\* The customers of the fact table.
FactCustomers == Range(Column(df_base, "customerNumber"))

\* The category the ratio rule gives customer c of the fact table, from the
\* customer's credit limit (possibly null) and the sum of the customer's
\* line sales.
RuleCategory(c) ==
    LET rows == SelectSeq(df_base, LAMBDA r : r.customerNumber = c)
        credit == rows[1].creditLimit
        sales == SumCol(rows, "lineSales")
    IN  IF credit # NaN /\ HighCreditHolds(Val(credit), sales, config.ratio_threshold)
        THEN MIS_HIGH_CREDIT
        ELSE IF credit # NaN /\ LowCreditHolds(Val(credit), sales, config.ratio_threshold)
        THEN MIS_LOW_CREDIT
        ELSE NORMAL

----------------------------------------------------------------------------
(* Properties of the geographic scan *)

\* The countries of the fact table, and the customers of each.
FactCountries == Range(Column(df_base, "country")) \ {None}

CustomersOf(country) ==
    {df_base[i].customerNumber : i \in {i \in DOMAIN df_base : df_base[i].country = country}}

\* The credit limit of a customer in the customers table.
CreditOf(c) ==
    Val((CHOOSE r \in Range(raw.customers) : r.customerNumber = c).creditLimit)

\* The credit limits of the customers of a country, each counted once.
CountryCredit(country) ==
    LET cs == SortInts(CustomersOf(country))
    IN  SumSeq([k \in DOMAIN cs |-> CreditOf(cs[k])])

CountrySalesTotal(country) ==
    SumCol(SelectSeq(df_base, LAMBDA r : r.country = country), "lineSales")

\* The countries with a credit/sales ratio: those with sales.
RankedCountries == {c \in FactCountries : CountrySalesTotal(c) > 0}

\* Twice the average rank of the ratio of country c among the ranked
\* countries.
TwiceAvgRank(c) ==
    LET less == {d \in RankedCountries :
                    CountryCredit(d) * CountrySalesTotal(c)
                        < CountryCredit(c) * CountrySalesTotal(d)}
        equal == {d \in RankedCountries :
                     CountryCredit(d) * CountrySalesTotal(c)
                         = CountryCredit(c) * CountrySalesTotal(d)}
    IN  2 * Cardinality(less) + Cardinality(equal) + 1

\* The percentile rank of c is >= 90, or <= 10.
InTopDecile(c) ==
    c \in RankedCountries /\ 100 * TwiceAvgRank(c) >= 90 * 2 * Cardinality(RankedCountries)

InBottomDecile(c) ==
    c \in RankedCountries /\ 100 * TwiceAvgRank(c) <= 10 * 2 * Cardinality(RankedCountries)

\* C13: the country scan returns one row for each country whose percentile
\* rank of total credit limit over total sales, among the countries that
\* have such a ratio, is >= 90 (labelled high) or <= 10 (labelled low), and
\* no other row; the total credit limit of a country counts the credit
\* limit of each of its customers once, however many fact rows the
\* customer has.
C13_GeoDeciles ==
    Has("geo_anomalies") =>
        LET t == datasets["geo_anomalies"]
        IN  /\ \A c \in FactCountries :
                   Cardinality({i \in DOMAIN t : t[i].country = c})
                       = IF InTopDecile(c) \/ InBottomDecile(c) THEN 1 ELSE 0
            /\ \A i \in DOMAIN t :
                   /\ t[i].country \in FactCountries
                   /\ t[i].anomalyCategory \in {GEO_HIGH, GEO_LOW}
                   /\ t[i].anomalyCategory = GEO_HIGH <=> InTopDecile(t[i].country)
                   /\ t[i].anomalyCategory = GEO_LOW <=>
                          (InBottomDecile(t[i].country) /\ ~InTopDecile(t[i].country))
                   /\ t[i].total_credit_limit = CountryCredit(t[i].country)
                   /\ t[i].total_sales = CountrySalesTotal(t[i].country)

\* Ten countries are ranked; the scan has returned a country at exactly
\* the 10th percentile as low and one at exactly the 90th as high, one of
\* the returned countries has two customers and a customer with several
\* fact rows, and a country is at neither end.
C13_Witness ==
    /\ Has("geo_anomalies")
    /\ Cardinality(RankedCountries) = 10
    /\ \E i \in DOMAIN datasets["geo_anomalies"] :
           /\ datasets["geo_anomalies"][i].anomalyCategory = GEO_LOW
           /\ TwiceAvgRank(datasets["geo_anomalies"][i].country) = 2
    /\ \E i \in DOMAIN datasets["geo_anomalies"] :
           /\ datasets["geo_anomalies"][i].anomalyCategory = GEO_HIGH
           /\ TwiceAvgRank(datasets["geo_anomalies"][i].country) = 18
    /\ \E i \in DOMAIN datasets["geo_anomalies"] :
           /\ datasets["geo_anomalies"][i].num_customers = 2
           /\ Len(SelectSeq(df_base, LAMBDA r :
                      r.country = datasets["geo_anomalies"][i].country)) > 2
    /\ \E c \in RankedCountries : ~InTopDecile(c) /\ ~InBottomDecile(c)

----------------------------------------------------------------------------
(* Properties of the demand trend *)

\* The latest month of the fact table, as a month number.
LatestMonth ==
    LET months == {MonthIndex(ToPeriodM(df_base[i].orderDate)) :
                      i \in {i \in DOMAIN df_base : df_base[i].orderDate # NaT}}
    IN  CHOOSE m \in months : \A n \in months : n <= m

\* The fact rows of a product whose month is lo to hi months before the
\* latest month.
WindowRows(productCode, lo, hi) ==
    SelectSeq(df_base, LAMBDA r :
        /\ r.productCode = productCode
        /\ r.orderDate # NaT
        /\ LatestMonth - MonthIndex(ToPeriodM(r.orderDate)) \in lo..hi)

\* The mean monthly revenue of a window as <<revenue, months>>; undefined
\* (months = 0) when the product was not sold in the window.
WindowRevenue(productCode, lo, hi) ==
    <<SumCol(WindowRows(productCode, lo, hi), "lineSales"),
      Cardinality({ToPeriodM(r.orderDate) : r \in Range(WindowRows(productCode, lo, hi))})>>

\* The flag of the claim, with growth = (recent - previous) / previous
\* compared as a number.
TrendFlagOf(recent, previous) ==
    IF previous[2] = 0 \/ recent[2] = 0 \/ previous[1] <= 0 THEN INSUFFICIENT_DATA
    ELSE IF 100 * (recent[1] * previous[2] - previous[1] * recent[2])
                >= 15 * previous[1] * recent[2]
    THEN GROWING
    ELSE IF 100 * (recent[1] * previous[2] - previous[1] * recent[2])
                <= -15 * previous[1] * recent[2]
    THEN DECLINING
    ELSE STABLE

\* C14: the flag of every product of the trend table compares the mean
\* monthly revenue of months-ago 0..2 (from the latest month of the fact
\* table) with that of months-ago 3..5: GROWING iff growth >= 0.15, so
\* also when recent is exactly 1.15 x previous, DECLINING iff growth <=
\* -0.15, STABLE otherwise, INSUFFICIENT_DATA iff previous is undefined or
\* not > 0 or recent is undefined.
C14_DemandTrend ==
    Has("product_trends") =>
        \A r \in Range(datasets["product_trends"]) :
            r.demand_trend_flag =
                TrendFlagOf(WindowRevenue(r.productCode, 0, 2),
                            WindowRevenue(r.productCode, 3, 5))

----------------------------------------------------------------------------
(* Properties of the RFM scores *)

\* The fact rows of customer c.
FactRowsOf(c) == SelectSeq(df_base, LAMBDA r : r.customerNumber = c)

\* Days from the last order of customer c to the last order of the fact
\* table.
RecencyOf(c) ==
    ToOrdinal(MaxDate(Range(Column(df_base, "orderDate"))))
        - ToOrdinal(MaxDate(Range(Column(FactRowsOf(c), "orderDate"))))

\* The number of orders of customer c.
FrequencyOf(c) == Cardinality(Range(Column(FactRowsOf(c), "orderNumber")))

\* The sales of customer c.
MonetaryOf(c) == SumCol(FactRowsOf(c), "lineSales")

\* Every customer has the same recency, frequency and monetary value.
CustomersAlike ==
    \A c, d \in FactCustomers :
        /\ RecencyOf(c) = RecencyOf(d)
        /\ FrequencyOf(c) = FrequencyOf(d)
        /\ MonetaryOf(c) = MonetaryOf(d)

\* C15: when all customers have the same recency, the same frequency and
\* the same monetary value (a single customer included), the RFM call does
\* not raise, and every customer has a row with r_score = f_score =
\* m_score = 3, rfm_score = 9 and rfm_segment 'Loyal'.
C15_AlikeCustomersNeutral ==
    CustomersAlike =>
        /\ raised = None
        /\ Has("customer_rfm") =>
               /\ \A c \in FactCustomers :
                      \E i \in DOMAIN datasets["customer_rfm"] :
                          datasets["customer_rfm"][i].customerNumber = c
               /\ \A i \in DOMAIN datasets["customer_rfm"] :
                      /\ datasets["customer_rfm"][i].r_score = F(3)
                      /\ datasets["customer_rfm"][i].f_score = F(3)
                      /\ datasets["customer_rfm"][i].m_score = F(3)
                      /\ datasets["customer_rfm"][i].rfm_score = F(9)
                      /\ datasets["customer_rfm"][i].rfm_segment = "Loyal"

\* The RFM table of ten customers alike in recency, frequency and monetary
\* value, each with several orders, has been computed.
C15_Witness ==
    /\ Has("customer_rfm")
    /\ CustomersAlike
    /\ Cardinality(FactCustomers) = 10
    /\ Len(datasets["customer_rfm"]) = 10
    /\ \A c \in FactCustomers : FrequencyOf(c) > 1
    /\ \A i \in DOMAIN datasets["customer_rfm"] :
           datasets["customer_rfm"][i].rfm_segment = "Loyal"

\* C16: every r_score, f_score and m_score is an integer in 1..5; a
\* customer with no more orders (no more sales) than another has no higher
\* f_score (m_score); a customer with fewer days since the last order has
\* no lower r_score than one with more days, and the most recent customer
\* has the highest r_score of the table.
C16_ScoresMonotone ==
    Has("customer_rfm") =>
        LET t == datasets["customer_rfm"]
        IN  /\ \A i \in DOMAIN t :
                   /\ t[i].r_score \in {F(n) : n \in 1..5}
                   /\ t[i].f_score \in {F(n) : n \in 1..5}
                   /\ t[i].m_score \in {F(n) : n \in 1..5}
            /\ \A i, j \in DOMAIN t :
                   /\ FrequencyOf(t[i].customerNumber) <= FrequencyOf(t[j].customerNumber)
                          => Val(t[i].f_score) <= Val(t[j].f_score)
                   /\ MonetaryOf(t[i].customerNumber) <= MonetaryOf(t[j].customerNumber)
                          => Val(t[i].m_score) <= Val(t[j].m_score)
                   /\ RecencyOf(t[i].customerNumber) <= RecencyOf(t[j].customerNumber)
                          => Val(t[i].r_score) >= Val(t[j].r_score)
            /\ \A i \in DOMAIN t :
                   RecencyOf(t[i].customerNumber) = 0
                       => \A j \in DOMAIN t : Val(t[j].r_score) <= Val(t[i].r_score)

\* The RFM table has every r_score and every m_score of 1..5, the most
\* recent customer has r_score 5 and the least recent r_score 1, and
\* three distinct frequencies give f_scores 1..3.
C16_Witness ==
    /\ Has("customer_rfm")
    /\ \A n \in 1..5 :
           \E i, j \in DOMAIN datasets["customer_rfm"] :
               /\ datasets["customer_rfm"][i].r_score = F(n)
               /\ datasets["customer_rfm"][j].m_score = F(n)
    /\ \E i, j \in DOMAIN datasets["customer_rfm"] :
           /\ RecencyOf(datasets["customer_rfm"][i].customerNumber) = 0
           /\ datasets["customer_rfm"][i].r_score = F(5)
           /\ datasets["customer_rfm"][j].r_score = F(1)
           /\ \A c \in FactCustomers :
                  RecencyOf(c) <= RecencyOf(datasets["customer_rfm"][j].customerNumber)
    /\ {datasets["customer_rfm"][i].f_score : i \in DOMAIN datasets["customer_rfm"]}
           = {F(1), F(2), F(3)}

----------------------------------------------------------------------------
(* Properties of the cross-sell pairs *)

\* The products of the fact table.
FactProducts == Range(Column(df_base, "productCode"))

\* The orders of the fact table.
FactOrders == Range(Column(df_base, "orderNumber"))

\* The orders with a line of product p.
OrdersWith(p) ==
    {df_base[i].orderNumber : i \in {i \in DOMAIN df_base : df_base[i].productCode = p}}

\* C17: the count of every pair of the cross-sell table is the number of
\* distinct orders with both products, an order adding 1 whatever its
\* number of lines of a product; productCode_1 < productCode_2 on every
\* row, so no row pairs a product with itself, and no pair is on two rows.
C17_PairsCountedOnce ==
    Has("cross_sell") =>
        LET t == datasets["cross_sell"]
        IN  /\ \A i \in DOMAIN t :
                   /\ t[i].productCode_1 < t[i].productCode_2
                   /\ t[i].cooccurrence_count =
                          Cardinality(OrdersWith(t[i].productCode_1)
                                          \cap OrdersWith(t[i].productCode_2))
            /\ \A i, j \in DOMAIN t :
                   {t[i].productCode_1, t[i].productCode_2}
                       = {t[j].productCode_1, t[j].productCode_2} => i = j

\* The table has three pairs, one of them products 1 and 2, which are
\* together in five orders; in one of these orders product 2 is on two
\* lines.
C17_Witness ==
    /\ Has("cross_sell")
    /\ Len(datasets["cross_sell"]) = 3
    /\ \E i \in DOMAIN datasets["cross_sell"] :
           /\ datasets["cross_sell"][i].productCode_1 = 1
           /\ datasets["cross_sell"][i].productCode_2 = 2
           /\ datasets["cross_sell"][i].cooccurrence_count = 5
    /\ \E i, j \in DOMAIN df_base :
           /\ i # j
           /\ df_base[i].orderNumber = df_base[j].orderNumber
           /\ df_base[i].productCode = 2
           /\ df_base[j].productCode = 2

\* num/den rounded to four decimals is `rounded' ten-thousandths.
IsRound4(rounded, num, den) ==
    LET d == 10000 * num - rounded * den
    IN  2 * d <= den /\ -2 * d <= den

\* C18: the cross-sell table has exactly the pairs of products that are
\* together in at least min_cooccurrence orders; on every row support =
\* count / orders of the fact table, each confidence = count / orders with
\* that product, expected = orders with the one x orders with the other /
\* orders of the fact table and lift = count / expected (to four
\* decimals); the count is at most the orders of either product, and
\* support and confidences are in (0, 1].
C18_PairsKeptAndMeasured ==
    Has("cross_sell") =>
        LET t == datasets["cross_sell"]
            total == Cardinality(FactOrders)
        IN  /\ \A a, b \in FactProducts :
                   a < b =>
                       ((Cardinality(OrdersWith(a) \cap OrdersWith(b))
                             >= config.min_cooccurrence)
                        <=> \E i \in DOMAIN t : /\ t[i].productCode_1 = a
                                                /\ t[i].productCode_2 = b)
            /\ \A i \in DOMAIN t :
                   LET count == t[i].cooccurrence_count
                       with_1 == Cardinality(OrdersWith(t[i].productCode_1))
                       with_2 == Cardinality(OrdersWith(t[i].productCode_2))
                   IN  /\ count >= config.min_cooccurrence
                       /\ IsRound4(t[i].support, count, total)
                       /\ IsRound4(t[i].confidence_from_p1, count, with_1)
                       /\ IsRound4(t[i].confidence_from_p2, count, with_2)
                       /\ IsRound4(t[i].expected_cooccurrence, with_1 * with_2, total)
                       /\ IsRound4(t[i].lift, count * total, with_1 * with_2)
                       /\ count <= with_1 /\ count <= with_2
                       /\ t[i].support \in 1..10000
                       /\ t[i].confidence_from_p1 \in 1..10000
                       /\ t[i].confidence_from_p2 \in 1..10000

----------------------------------------------------------------------------
(* Properties of the next-order prediction *)

\* The dates of the orders of customer c as day ordinals, one per order.
OrderDaysOf(c) ==
    LET orders == SortInts(Range(Column(FactRowsOf(c), "orderNumber")))
    IN  [k \in DOMAIN orders |->
            ToOrdinal((CHOOSE r \in Range(df_base) : r.orderNumber = orders[k]).orderDate)]

\* C19: for a customer with at least two orders the average gap is the
\* mean of the day gaps between consecutive orders in date order, which
\* is (last order date - first order date) / (orders - 1), given to one
\* decimal, and the predicted date is the last order date plus that mean,
\* so not before the last order date; for a customer with one order the
\* average gap and the predicted date are null.
C19_NextOrderFromMeanGap ==
    Has("next_orders") =>
        \A i \in DOMAIN datasets["next_orders"] :
            LET r == datasets["next_orders"][i]
                days == Range(OrderDaysOf(r.customerNumber))
                first == CHOOSE d \in days : \A e \in days : d <= e
                last == CHOOSE d \in days : \A e \in days : e <= d
                gaps == Len(OrderDaysOf(r.customerNumber)) - 1
            IN  IF gaps < 1
                THEN r.avg_gap_days = NaN /\ r.expected_next_order_date = NaT
                ELSE /\ r.avg_gap_days # NaN
                     /\ 2 * (10 * (last - first) - Val(r.avg_gap_days) * gaps) <= gaps
                     /\ 2 * (Val(r.avg_gap_days) * gaps - 10 * (last - first)) <= gaps
                     /\ r.expected_next_order_date # NaT
                     /\ r.expected_next_order_date[1] * gaps
                            = (last * gaps + (last - first)) * r.expected_next_order_date[2]
                     /\ r.expected_next_order_date[1]
                            >= last * r.expected_next_order_date[2]

\* The prediction has a customer with three orders, 31 and 30 days apart
\* (average gap 30.5 days), one of them of two lines, and a customer with
\* one order and no prediction.
C19_Witness ==
    /\ Has("next_orders")
    /\ \E i, j \in DOMAIN datasets["next_orders"] :
           /\ Len(OrderDaysOf(datasets["next_orders"][i].customerNumber)) = 3
           /\ Len(FactRowsOf(datasets["next_orders"][i].customerNumber)) = 4
           /\ datasets["next_orders"][i].avg_gap_days = F(305)
           /\ datasets["next_orders"][i].expected_next_order_date # NaT
           /\ Len(OrderDaysOf(datasets["next_orders"][j].customerNumber)) = 1
           /\ datasets["next_orders"][j].avg_gap_days = NaN
           /\ datasets["next_orders"][j].expected_next_order_date = NaT

----------------------------------------------------------------------------
(* Properties of the monthly changes *)

\* The changes of the monthly table t are those of its totalSales column
\* and its rows are in month order.
MonthlyChangesHold(t) ==
    /\ \A i, j \in DOMAIN t :
           i < j => /\ TupleLE(MonthKey(t[i]), MonthKey(t[j]))
                    /\ MonthKey(t[i]) # MonthKey(t[j])
    /\ \A i \in DOMAIN t :
           /\ t[i].mom_change =
                  IF i = 1 THEN NaN ELSE F(t[i].totalSales - t[i - 1].totalSales)
           /\ t[i].yoy_change =
                  IF i <= 12 THEN NaN ELSE F(t[i].totalSales - t[i - 12].totalSales)
           /\ i <= 12 => t[i].yoy_pct = NaN
           /\ (i > 12 /\ t[i - 12].totalSales > 0) => t[i].yoy_pct # NaN

\* C20: the monthly KPI step does not raise, and in its table, whose rows
\* are in month order, mom_change of a row is its totalSales minus the
\* totalSales of the row before it, null on the first row; yoy_change is
\* its totalSales minus the totalSales of the row 12 positions earlier;
\* yoy_change and yoy_pct are null on the first 12 rows.
C20_MonthlyChanges ==
    [][pc = "monthly" =>
           /\ raised' = None
           /\ "monthly" \in DOMAIN datasets'
           /\ MonthlyChangesHold(datasets'["monthly"])]_vars

\* The monthly table has fourteen rows; the thirteenth and the fourteenth
\* have a year-over-year change, which differs from the month-over-month
\* change, and the twelfth has none.
C20_Witness ==
    /\ Has("monthly")
    /\ Len(datasets["monthly"]) = 14
    /\ datasets["monthly"][12].yoy_change = NaN
    /\ datasets["monthly"][12].mom_change # NaN
    /\ datasets["monthly"][13].yoy_change # NaN
    /\ datasets["monthly"][14].yoy_change # NaN
    /\ datasets["monthly"][13].yoy_change # datasets["monthly"][13].mom_change
    /\ datasets["monthly"][14].yoy_pct # NaN

----------------------------------------------------------------------------
(* Properties of the summary builders *)

\* The datasets that are tables of the fact table's entities.
TableDatasets ==
    {"monthly", "customers", "products", "regions", "salesreps", "high_risk",
     "misalignment", "geo_anomalies", "product_trends", "customer_rfm",
     "next_orders", "cross_sell"}

\* C21: on a zero-row fact table no step of build_datasets raises, every
\* table it stores has zero rows and the context banner and the diagnostic
\* summary count nothing; and whenever the misalignment table has zero
\* rows, calculate_diagnostic_summary returns (it does not raise) a
\* summary whose percentage and misalignment counts are zero.
C21_EmptyInputsHandled ==
    /\ (pc # "base" /\ df_base = <<>>) =>
           /\ raised = None
           /\ \A name \in DOMAIN datasets \cap TableDatasets : datasets[name] = <<>>
           /\ Has("context") => /\ datasets["context"].customers = 0
                                /\ datasets["context"].countries_served = 0
           /\ Has("diagnostic_summary") =>
                  datasets["diagnostic_summary"].high_risk_customers_count = 0
    /\ (Has("context") /\ pc # "diagnostic_summary" /\ datasets["misalignment"] = <<>>) =>
           /\ raised = None
           /\ Has("diagnostic_summary")
           /\ datasets["diagnostic_summary"].high_risk_customers_pct = 0
           /\ datasets["diagnostic_summary"].misalignment_count = 0
           /\ datasets["diagnostic_summary"].over_credited_count = 0
           /\ datasets["diagnostic_summary"].under_credited_count = 0

\* C22: no step of build_datasets after the fact table is built changes
\* a table it was given: the raw tables, the fact table and every
\* dataset stored so far, the monthly table passed to
\* create_kpi_card_data among them, are the same after the step.
C22_InputsUnchanged ==
    [][/\ raw' = raw
       /\ pc # "base" => df_base' = df_base
       /\ \A name \in DOMAIN datasets :
              name \in DOMAIN datasets' /\ datasets'[name] = datasets[name]]_vars

----------------------------------------------------------------------------
(* Properties of the fact table *)

\* The rows of a raw table with the key value v in column col.
Matches(table, col, v) == {i \in DOMAIN table : table[i][col] = v}

\* The order lines whose order is in orders.
LinesWithOrder ==
    {i \in DOMAIN raw.orderdetails :
        Matches(raw.orders, "orderNumber", raw.orderdetails[i].orderNumber) # {}}

\* The fact row r is the line l with the columns of its order and those,
\* or nulls, of its customer, its product and the sales rep of the customer.
IsFactRowOf(r, l) ==
    /\ r.orderNumber = l.orderNumber
    /\ r.productCode = l.productCode
    /\ r.quantityOrdered = l.quantityOrdered
    /\ r.priceEach = l.priceEach
    /\ r.lineSales = l.quantityOrdered * l.priceEach
    /\ \E o \in Matches(raw.orders, "orderNumber", l.orderNumber) :
           /\ r.customerNumber = raw.orders[o].customerNumber
           /\ r.orderDate = raw.orders[o].orderDate
    /\ LET cs == Matches(raw.customers, "customerNumber", r.customerNumber)
       IN  IF cs = {}
           THEN /\ r.customerName = None /\ r.country = None /\ r.city = None
                /\ r.creditLimit = NaN /\ r.salesRepEmployeeNumber = NaN
           ELSE \E c \in cs :
                    /\ r.customerName = raw.customers[c].customerName
                    /\ r.country = raw.customers[c].country
                    /\ r.creditLimit = raw.customers[c].creditLimit
                    /\ r.salesRepEmployeeNumber = raw.customers[c].salesRepEmployeeNumber
    /\ LET ps == Matches(raw.products, "productCode", r.productCode)
       IN  IF ps = {} THEN r.productName = None /\ r.productLine = None
           ELSE \E q \in ps : /\ r.productName = raw.products[q].productName
                                /\ r.productLine = raw.products[q].productLine
    /\ LET es == {e \in DOMAIN raw.employees :
                     F(raw.employees[e].employeeNumber) = r.salesRepEmployeeNumber}
       IN  IF es = {} THEN r.employeeNumber = NaN /\ r.employeeName = None
           ELSE \E e \in es : r.employeeNumber = F(raw.employees[e].employeeNumber)

\* C23: the fact table has exactly one row per order line whose
\* orderNumber is in orders and none for the other lines; the row carries
\* the columns of its customer, product and sales rep, or nulls where
\* there is none, and lineSales = quantityOrdered x priceEach.
C23_OneRowPerLineWithOrder ==
    pc # "base" =>
        /\ Len(df_base) = Cardinality(LinesWithOrder)
        /\ \A i \in LinesWithOrder :
               \E n \in DOMAIN df_base : IsFactRowOf(df_base[n], raw.orderdetails[i])
        /\ \A n \in DOMAIN df_base :
               \E i \in LinesWithOrder : IsFactRowOf(df_base[n], raw.orderdetails[i])

\* The fact table of a line without an order, a line whose customer and
\* product are unknown and a line whose customer has an unknown sales rep.
C23_Witness ==
    /\ pc # "base"
    /\ LinesWithOrder # DOMAIN raw.orderdetails
    /\ \E n \in DOMAIN df_base : df_base[n].customerName = None
    /\ \E n \in DOMAIN df_base : df_base[n].productName = None
    /\ \E n \in DOMAIN df_base :
           df_base[n].salesRepEmployeeNumber # NaN /\ df_base[n].employeeNumber = NaN

----------------------------------------------------------------------------
(* Properties of the regions table *)

\* The rows of the regions table listed under the region of row g.
RegionRows(t, g) == {h \in DOMAIN t : t[h].region = t[g].region}

RECURSIVE SumOver(_, _, _)
\* The sum of column col over the rows S of table t.
SumOver(t, S, col) ==
    IF S = {} THEN 0
    ELSE LET h == CHOOSE h \in S : TRUE
         IN  t[h][col] + SumOver(t, S \ {h}, col)

\* C24: every country of the fact table is on exactly one row of the
\* regions table, under the region of the static lookup or under 'Other'
\* when the lookup does not have it; on every row region_total_sales is
\* the sum of total_sales of the rows of that region, pct_of_region_sales
\* is the share of the row in that sum and rank_in_region ranks the row
\* among the rows of that region.
C24_CountriesWithinRegion ==
    Has("regions") =>
        LET t == datasets["regions"]
        IN  /\ \A c \in Range(Column(df_base, "country")) \ {None} :
                   /\ Cardinality({g \in DOMAIN t : t[g].country = c}) = 1
                   /\ \A g \in DOMAIN t :
                          t[g].country = c =>
                              t[g].region = IF c \in DOMAIN region_mapping
                                            THEN region_mapping[c] ELSE "Other"
            /\ \A g \in DOMAIN t :
                   LET total == SumOver(t, RegionRows(t, g), "total_sales")
                   IN  /\ t[g].region_total_sales = total
                       /\ t[g].pct_of_region_sales = PctCell(t[g].total_sales, total)
                       /\ t[g].rank_in_region =
                              1 + Cardinality({h \in RegionRows(t, g) :
                                                  t[h].total_sales > t[g].total_sales})

----------------------------------------------------------------------------
(* Properties of load_sql_query *)

\* C26: load_sql_query returns the text of the first existing file among
\* <folder>/.sql/<name>, <folder>/.sql/<name>.sql, <folder>/<name> and
\* <folder>/<name>.sql, in this order, and raises FileNotFoundError only
\* when none of the four exists.
C26_FirstOfFourCandidates ==
    pc \in {"done", "raised"} /\ "relative_path" \in DOMAIN config =>
        LET name == config.relative_path.name
            four == <<[folder |-> config.relative_path.folder, hidden |-> TRUE,
                       name |-> name],
                      [folder |-> config.relative_path.folder, hidden |-> TRUE,
                       name |-> name \o <<"sql">>],
                      [folder |-> config.relative_path.folder, hidden |-> FALSE,
                       name |-> name],
                      [folder |-> config.relative_path.folder, hidden |-> FALSE,
                       name |-> name \o <<"sql">>]>>
            found == SelectSeq(four, LAMBDA c : c \in config.files)
        IN  IF found = <<>> THEN raised = "FileNotFoundError"
            ELSE raised = None /\ datasets["sql"] = found[1]

----------------------------------------------------------------------------
(* Properties of load_datasets *)

\* The keys of the canonical contract of load_datasets.
ContractKeys ==
    {"base", "monthly", "customers", "products", "regions", "salesreps",
     "high_risk", "misalignment", "geo_anomalies", "product_trends",
     "customer_rfm", "next_orders", "cross_sell", "kpi_cards", "context",
     "diagnostic_summary", "risk_by_country", "data_quality"}

\* The queries whose SQL file is missing or does not execute.
FailingQueries ==
    {q \in DOMAIN Queries :
        \A hidden \in BOOLEAN :
            [folder |-> Queries[q].folder, hidden |-> hidden, name |-> Queries[q].name]
                \notin config.files \ config.broken}

\* load_datasets has the database, reads its tables and is not interrupted.
LoadUndisturbed ==
    /\ config.db_path = "file"
    /\ config.interrupt = None
    /\ config.unreadable \cap {"orders", "orderdetails", "customers", "products",
                                "employees"} = {}

\* C25: whatever queries fail to load or to execute, load_datasets does
\* not raise and returns a dict with every key of its contract, in which
\* the table of each failing query is empty.
C25_ContractKeysReturned ==
    (pc \in {"done", "raised"} /\ LoadUndisturbed) =>
        /\ raised = None
        /\ ContractKeys \subseteq DOMAIN datasets
        /\ \A q \in FailingQueries \cap ContractKeys : datasets[q] = <<>>

\* load_datasets has returned although some queries failed and others did
\* not.
C25_Witness ==
    /\ pc = "done"
    /\ LoadUndisturbed
    /\ {"monthly", "misalignment", "cross_sell"} \subseteq FailingQueries
    /\ datasets.customers # <<>>
    /\ ContractKeys \subseteq DOMAIN datasets

\* The events of the log of the given kind.
Events(kind) == {i \in DOMAIN engine.log : engine.log[i] = kind}

\* C27: once control has left load_datasets, a connection that was opened
\* has been closed exactly once and the close is the last thing the engine
\* did, whether the datasets are returned or an exception is raised; a
\* connection stays open only while load_datasets is inside its try
\* block; no read and no query ever follows a close; and without the
\* database file load_datasets raises FileNotFoundError and has opened
\* nothing.
C27_ConnectionClosedOnce ==
    /\ pc \in {"done", "raised"} =>
           /\ Cardinality(Events("connect")) <= 1
           /\ Cardinality(Events("close")) = Cardinality(Events("connect"))
           /\ engine.conn # "open"
           /\ Events("connect") # {} => engine.log[Len(engine.log)] = "close"
           /\ config.db_path = "missing" =>
                  raised = "FileNotFoundError" /\ engine = NoEngine
    /\ engine.conn = "open" =>
           pc \in {"raw_inputs", "build_base", "sql_datasets", "summaries", "finally"}
    /\ \A i \in Events("close") :
           \A j \in Events("read") \cup Events("query") \cup Events("connect") : j < i

\* load_datasets was interrupted while it built its summaries, and has
\* closed the connection after the queries.
C27_Witness ==
    /\ pc = "raised"
    /\ raised = "KeyboardInterrupt"
    /\ Events("query") # {}
    /\ engine.conn = "closed"

----------------------------------------------------------------------------
(* Properties of the two credit scanners taken together *)

\* Both scanners have run on the fact table, with the same threshold.
BothScannedAlike ==
    /\ {"high_risk", "misalignment"} \subseteq DOMAIN datasets
    /\ config.credit_ratio_threshold = config.ratio_threshold

\* The high-risk row h and the misalignment row m are of the same customer.
SameCustomer(h, m) ==
    /\ h.customerNumber = m.customerNumber
    /\ h.creditLimit = m.creditLimit
    /\ h.totalSales = m.totalSales

\* C28: with equal thresholds, every customer of the misalignment table is
\* in the high-risk table with the ratio flag of its category (high credit
\* with high credit, low credit with low credit), and every high-risk row
\* that has a ratio flag is in the misalignment table.
C28_MisalignmentWithinHighRisk ==
    BothScannedAlike =>
        /\ \A m \in Range(datasets["misalignment"]) :
               \E h \in Range(datasets["high_risk"]) :
                   /\ SameCustomer(h, m)
                   /\ m.misalignmentCategory = MIS_HIGH_CREDIT => h.ratioFlag = HIGH_CREDIT
                   /\ m.misalignmentCategory = MIS_LOW_CREDIT => h.ratioFlag = LOW_CREDIT
                   /\ m.misalignmentCategory \in {MIS_HIGH_CREDIT, MIS_LOW_CREDIT}
        /\ \A h \in Range(datasets["high_risk"]) :
               h.ratioFlag # None =>
                   \E m \in Range(datasets["misalignment"]) : SameCustomer(h, m)

\* Both scanners ran with the same threshold and found a customer of each
\* category, one of them with both ratios over the threshold, next to a
\* high-risk customer without a ratio flag.
C28_Witness ==
    /\ BothScannedAlike
    /\ \E m \in Range(datasets["misalignment"]) :
           /\ m.misalignmentCategory = MIS_HIGH_CREDIT
           /\ m.creditLimit = m.totalSales
    /\ \E m \in Range(datasets["misalignment"]) : m.misalignmentCategory = MIS_LOW_CREDIT
    /\ \E h \in Range(datasets["high_risk"]) : h.ratioFlag = None

----------------------------------------------------------------------------
(* Properties of the diagnostic summary *)

\* The customers of the fact table, as the scanners group them.
ScannedCustomers == {r.customerNumber : r \in {x \in Range(df_base) : HasCreditKey(x)}}

\* The percentage, in tenths, is the share `count' of `customers', within
\* 0..100, and the count is not above the customers it is taken over.
IsHighRiskShare(summary, customers) ==
    /\ summary.high_risk_customers_pct \in 0..1000
    /\ summary.high_risk_customers_count <= customers
    /\ customers > 0 =>
           summary.high_risk_customers_pct =
               RoundDiv(1000 * summary.high_risk_customers_count, customers)

\* C29: the diagnostic summary of the high-risk and misalignment tables of
\* one fact table, from either implementation, has a high_risk_customers_pct
\* that is the share of the customers that are high risk, between 0 and
\* 100, over no fewer customers than high_risk_customers_count.
C29_HighRiskShareWithinHundred ==
    /\ "diagnostic_summary" \in DOMAIN datasets =>
           IsHighRiskShare(datasets["diagnostic_summary"], Cardinality(ScannedCustomers))
    /\ (pc = "diagnostic_summary" /\ raised = None) =>
           IsHighRiskShare(data_calculate_diagnostic_summary(datasets["high_risk"],
                                                             datasets["misalignment"]),
                           Cardinality(ScannedCustomers))

----------------------------------------------------------------------------
(* Properties of calculate_customer_concentration *)

\* C30: on a customers table of at least one row and of positive total
\* revenue, the implementation of utils/_aggregations.py and that of
\* utils/data.py return the same value for every top_pct, the share of the
\* revenue that the top floor(N x top_pct) customers hold, tables of fewer
\* than 5 customers included.
C30_ConcentrationsAgree ==
    ("customer_concentration" \in DOMAIN datasets
         /\ SumCol(datasets["customers"], "total_sales") > 0) =>
        LET both == datasets["customer_concentration"]
            N == Len(datasets["customers"])
        IN  /\ both.build_datasets = both.load_datasets
            /\ both.load_datasets =
                   TopShare(datasets["customers"],
                            (N * config.top_pct[1]) \div config.top_pct[2])

====
